---- MODULE Spec2Model ----
(***************************************************************************)
(* The Messages iterator of the Streams API (api/messages.rs) together     *)
(* with the parts of the user state machine and of the transport it drives.*)
(* One reader iterates over a shared transport while the other             *)
(* participants of the channel publish.                                    *)
(***************************************************************************)
EXTENDS Integers, Sequences, FiniteSets, TLC

\* ---------------------------------------------------------------- bounds
\* number of messages the other participants publish while the reader iterates
MaxSent == 2
\* number of signed packets chained behind the keyload of the single-branch scenario
ChainLen == 2

\* ------------------------------------------------------- names and values
Author == "author"
Sub1 == "sub1"
Reader == "reader"
Pubs == {Author, Sub1, Reader}

\* the cursor a publisher is registered with: its first message (announce or
\* subscription) carries this sequence number
INITIAL_CURSOR == 1

\* Option::None of an address, of a stream address, of a result
NoAddr == <<"none", 0>>
None == "None"

\* Option<Result<Message>> returned by next(); Pending before the first return
RetPending == [tag |-> "Pending", msg |-> NoAddr]
RetNone == [tag |-> "None", msg |-> NoAddr]
RetSome(m) == [tag |-> "Some", msg |-> m]
\* Some(Err(e))
RetErr(e) == [tag |-> "Err", msg |-> <<e, 0>>]

MaxOf(a, b) == IF a >= b THEN a ELSE b

\* highest sequence number any lane of the model reaches
MaxSeq == MaxOf(MaxOf(MaxSent, ChainLen + 1), 8) + INITIAL_CURSOR

\* the addresses of the stream: every lane up to the probe after its last message
AllAddr == Pubs \X (1..(MaxSeq + 1))

\* LinkGenerator::gen((base, publisher, cursor)): a pure, injective function of
\* the publisher and the sequence number (the base is the same for the stream)
Gen(publisher, cursor) == <<publisher, cursor>>

\* address of the announce message
Ann == Gen(Author, INITIAL_CURSOR)

\* the message kinds an application reads
Kinds == {"Keyload", "SignedPacket", "TaggedPacket"}

\* every frame_type of the header
FrameTypes == Kinds \cup {"Announce", "Subscribe", "Unsubscribe"}

\* a transport blob: HDF (kind = frame_type, linked = linked_msg_address) and
\* the body; cls tells whether the reader can unwrap the body ("ok") or not
\* ("bad": tampered, or masked under a key the reader does not have)
Blob(kind, linked, cls, payload, subs) ==
    [kind |-> kind, linked |-> linked, cls |-> cls, payload |-> payload, subs |-> subs]

\* api::message::Message as the iterator yields it
Message(address, blob) ==
    [address |-> address, linked |-> blob.linked, kind |-> blob.kind, payload |-> blob.payload]

VARIABLES
    scenario,           \* which run of the channel this is
    budget,             \* messages the publishers may still send
    transport,          \* bucket: address -> blobs stored under it
    stream_address,     \* User: Some(base) once the announce is known
    cursors,            \* User: publisher -> sequence number of its last message seen
    spongos_store,      \* User: addresses whose spongos snapshot is stored
    ids_stack,          \* MessagesState
    msg_queue,          \* MessagesState
    stage,              \* MessagesState
    successful_round,   \* MessagesState
    pc,                 \* "idle": no next() pending; "running": inside next()
    result,             \* what the last next() returned
    yielded,            \* every Some(Ok(m)) returned so far, in order
    yieldedAt,          \* for each of them, how many blobs had been fetched by then
    fetched,            \* addresses of the blobs recv_message returned, in order
    dirty,              \* a message was published since the last call of next()
    noneSeen,           \* some next() has returned None
    restarted,          \* a message was yielded after a next() had returned None
    fb_pred,            \* the predicate handed to filter_branch
    fb_skipping,        \* try_skip_while: still skipping
    branch_last_address,\* scan state of filter_branch
    fb_out,             \* what the filter_branch stream yielded so far
    client,             \* which Transport implementation the users talk to
    faulty,             \* the node of the tangle client is unreachable at times
    last_recv,          \* the recv_message call of the latest probe: address, what
                        \* recv_messages returned, what recv_message returned
    cancelled,          \* the future returned by Messages::next(): "no": polled to
                        \* completion so far; "dropped": dropped while pending;
                        \* "resumed": next() was called again after that
    sending,            \* send_message calls of the publishers that are pending on
                        \* the transport they share with the reader
    id_pc,              \* Identifier exchange: "start", "wrapped", "received", "done"
    id_self,            \* the Identifier unwrap writes to (&mut self)
    id_ctx,             \* the wrap / unwrap Context: its stream and its sponge
    id_out,             \* what the exchange did so far
    an_pc,              \* Announce exchange: "start", "sized", "wrapped", "received", "done"
    an_out,             \* what the Announce exchange did so far
    tg_blocks,          \* the blocks of the tangle node
    tg_out,             \* the last call of the tangle client and its result
    tg_sent,            \* the (address, body) pairs the tangle client sent
    probe_round         \* the probe round in progress: the (publisher, cursor) pairs
                        \* and the user state it started with, the probes done so far

userVars == <<stream_address, cursors, spongos_store>>
iterVars == <<ids_stack, msg_queue, stage, successful_round>>
fbVars == <<fb_skipping, branch_last_address, fb_out>>
tspVars == <<client, faulty>>
idVars == <<id_pc, id_self, id_ctx, id_out>>
anVars == <<an_pc, an_out>>
tgVars == <<tg_blocks, tg_out, tg_sent>>
vars == <<scenario, budget, transport, stream_address, cursors, spongos_store,
          ids_stack, msg_queue, stage, successful_round, pc, result, yielded, yieldedAt,
          fetched, dirty, noneSeen, restarted, fb_pred, fb_skipping, branch_last_address, fb_out,
          client, faulty, last_recv, cancelled, sending, id_pc, id_self, id_ctx, id_out,
          an_pc, an_out, tg_blocks, tg_out, tg_sent, probe_round>>

\* everything but the caller's future
stateVars == <<scenario, budget, transport, stream_address, cursors, spongos_store,
               ids_stack, msg_queue, stage, successful_round, pc, result, yielded, yieldedAt,
               fetched, dirty, noneSeen, restarted, fb_pred, fb_skipping, branch_last_address,
               fb_out, client, faulty, last_recv, sending, id_pc, id_self, id_ctx, id_out,
          an_pc, an_out, tg_blocks, tg_out, tg_sent, probe_round>>

\* --------------------------------------------------------------- Identifier
PUBLIC_KEY_LENGTH == 32
PSKID_SIZE == 16

EdPubKey(pk) == [kind |-> "EdPubKey", bytes |-> pk]
PskId(pskid) == [kind |-> "PskId", bytes |-> pskid]

\* the keys and ids of the exchanges explored
PublicKeys == {[i \in 1..PUBLIC_KEY_LENGTH |-> 0], [i \in 1..PUBLIC_KEY_LENGTH |-> i],
               [i \in 1..PUBLIC_KEY_LENGTH |-> 256 - i]}
PskIds == {[i \in 1..PSKID_SIZE |-> 0], [i \in 1..PSKID_SIZE |-> 2 * i],
           [i \in 1..PSKID_SIZE |-> 255]}
Identifiers == {EdPubKey(pk) : pk \in PublicKeys} \cup {PskId(id) : id \in PskIds}

\* the sponge states a message may reach before the Identifier field
SpongosStates == {0, 5}

\* the sponge after absorbing bytes: every byte moves the state
RECURSIVE SpongosAbsorb(_, _)
SpongosAbsorb(spongos, bytes) ==
    IF bytes = <<>> THEN spongos
    ELSE SpongosAbsorb((spongos * 3 + Head(bytes) + 1) % 251, Tail(bytes))

\* the i-th keystream byte the sponge in this state masks with
Keystream(spongos, i) == (spongos + 7 * i + 1) % 256

Encrypt(spongos, bytes) ==
    [i \in 1..Len(bytes) |-> (bytes[i] + Keystream(spongos, i)) % 256]

Decrypt(spongos, bytes) ==
    [i \in 1..Len(bytes) |-> (bytes[i] + 256 - Keystream(spongos, i)) % 256]

Context(stream, spongos) == [stream |-> stream, spongos |-> spongos]

\* wrap::Context::absorb: the bytes are written in the clear and absorbed
WrapAbsorb(ctx, bytes) ==
    Context(ctx.stream \o bytes, SpongosAbsorb(ctx.spongos, bytes))

\* wrap::Context::mask: the bytes are written encrypted; the sponge absorbs
\* the ciphertext
WrapMask(ctx, bytes) ==
    LET c == Encrypt(ctx.spongos, bytes) IN
    Context(ctx.stream \o c, SpongosAbsorb(ctx.spongos, c))

BadOneof == "BadOneof"
StreamExhausted == "StreamExhausted"

\* unwrap::Context::absorb of n bytes: fails when the stream holds fewer
UnwrapAbsorb(ctx, n) ==
    IF Len(ctx.stream) < n
    THEN [ok |-> FALSE, err |-> StreamExhausted, val |-> <<>>, ctx |-> ctx]
    ELSE LET b == SubSeq(ctx.stream, 1, n) IN
         [ok |-> TRUE, err |-> "", val |-> b,
          ctx |-> Context(SubSeq(ctx.stream, n + 1, Len(ctx.stream)),
                          SpongosAbsorb(ctx.spongos, b))]

\* unwrap::Context::mask of n bytes
UnwrapMask(ctx, n) ==
    IF Len(ctx.stream) < n
    THEN [ok |-> FALSE, err |-> StreamExhausted, val |-> <<>>, ctx |-> ctx]
    ELSE LET c == SubSeq(ctx.stream, 1, n) IN
         [ok |-> TRUE, err |-> "", val |-> Decrypt(ctx.spongos, c),
          ctx |-> Context(SubSeq(ctx.stream, n + 1, Len(ctx.stream)),
                          SpongosAbsorb(ctx.spongos, c))]

\* sizeof::Context::absorb and mask: the context counts the bytes of the field
SizeofAbsorb(size, bytes) == size + Len(bytes)
SizeofMask(size, bytes) == size + Len(bytes)

\* a sizeof that leaves out the tag
SizeofPayloadOnly(self) ==
    IF self.kind = "EdPubKey"
    THEN SizeofAbsorb(0, self.bytes)
    ELSE SizeofMask(0, self.bytes)

\* ContentSizeof for Identifier, from an empty sizeof::Context
Sizeof(self) ==
    IF self.kind = "EdPubKey"
    THEN SizeofAbsorb(SizeofAbsorb(0, <<0>>), self.bytes)
    ELSE SizeofMask(SizeofAbsorb(0, <<1>>), self.bytes)

\* a wrap that writes the tag of the other variant
WrapTagsSwapped(self, ctx) ==
    IF self.kind = "EdPubKey"
    THEN WrapAbsorb(WrapAbsorb(ctx, <<1>>), self.bytes)
    ELSE WrapMask(WrapAbsorb(ctx, <<0>>), self.bytes)

\* ContentWrap for Identifier
Wrap(self, ctx) ==
    IF self.kind = "EdPubKey"
    THEN WrapAbsorb(WrapAbsorb(ctx, <<0>>), self.bytes)
    ELSE WrapMask(WrapAbsorb(ctx, <<1>>), self.bytes)

UnwrapOk(identifier, ctx) == [ok |-> TRUE, err |-> "", self |-> identifier, ctx |-> ctx]
UnwrapErr(e, self, ctx) == [ok |-> FALSE, err |-> e, self |-> self, ctx |-> ctx]

\* an unwrap that reads the PskId in the clear
UnwrapAbsorbsPskId(self, ctx) ==
    LET oneof == UnwrapAbsorb(ctx, 1) IN
    IF ~oneof.ok THEN UnwrapErr(oneof.err, self, oneof.ctx)
    ELSE CASE oneof.val[1] = 0 ->
                LET pk == UnwrapAbsorb(oneof.ctx, PUBLIC_KEY_LENGTH) IN
                IF ~pk.ok THEN UnwrapErr(pk.err, self, pk.ctx)
                ELSE UnwrapOk(EdPubKey(pk.val), pk.ctx)
           [] oneof.val[1] = 1 ->
                LET pskid == UnwrapAbsorb(oneof.ctx, PSKID_SIZE) IN
                IF ~pskid.ok THEN UnwrapErr(pskid.err, self, pskid.ctx)
                ELSE UnwrapOk(PskId(pskid.val), pskid.ctx)
           [] OTHER -> UnwrapErr(BadOneof, self, oneof.ctx)

\* an unwrap that overwrites the target as soon as the tag is known
UnwrapAssignsFirst(self, ctx) ==
    LET oneof == UnwrapAbsorb(ctx, 1) IN
    IF ~oneof.ok THEN UnwrapErr(oneof.err, self, oneof.ctx)
    ELSE CASE oneof.val[1] = 0 ->
                LET pk == UnwrapAbsorb(oneof.ctx, PUBLIC_KEY_LENGTH) IN
                IF ~pk.ok
                THEN UnwrapErr(pk.err, EdPubKey([i \in 1..PUBLIC_KEY_LENGTH |-> 0]), pk.ctx)
                ELSE UnwrapOk(EdPubKey(pk.val), pk.ctx)
           [] oneof.val[1] = 1 ->
                LET pskid == UnwrapMask(oneof.ctx, PSKID_SIZE) IN
                IF ~pskid.ok
                THEN UnwrapErr(pskid.err, PskId([i \in 1..PSKID_SIZE |-> 0]), pskid.ctx)
                ELSE UnwrapOk(PskId(pskid.val), pskid.ctx)
           [] OTHER -> UnwrapErr(BadOneof, EdPubKey([i \in 1..PUBLIC_KEY_LENGTH |-> 0]),
                                 oneof.ctx)

\* ContentUnwrap for Identifier: self is the target's value before the call;
\* the result holds its value after it
Unwrap(self, ctx) ==
    LET oneof == UnwrapAbsorb(ctx, 1) IN
    IF ~oneof.ok THEN UnwrapErr(oneof.err, self, oneof.ctx)
    ELSE CASE oneof.val[1] = 0 ->
                LET pk == UnwrapAbsorb(oneof.ctx, PUBLIC_KEY_LENGTH) IN
                IF ~pk.ok THEN UnwrapErr(pk.err, self, pk.ctx)
                ELSE UnwrapOk(EdPubKey(pk.val), pk.ctx)
           [] oneof.val[1] = 1 ->
                LET pskid == UnwrapMask(oneof.ctx, PSKID_SIZE) IN
                IF ~pskid.ok THEN UnwrapErr(pskid.err, self, pskid.ctx)
                ELSE UnwrapOk(PskId(pskid.val), pskid.ctx)
           [] OTHER -> UnwrapErr(BadOneof, self, oneof.ctx)

\* #[derive(PartialEq, Eq)] on Identifier: the same variant with equal payloads
IdentifierEq(a, b) == a.kind = b.kind /\ a.bytes = b.bytes

\* what a failed unwrap_new returns in place of an Identifier
NoIdentifier == [kind |-> "none", bytes |-> <<>>]

\* unwrap_new: the Identifier read is returned, there is no target
UnwrapNew(ctx) ==
    LET oneof == UnwrapAbsorb(ctx, 1) IN
    IF ~oneof.ok THEN UnwrapErr(oneof.err, NoIdentifier, oneof.ctx)
    ELSE CASE oneof.val[1] = 0 ->
                LET pk == UnwrapAbsorb(oneof.ctx, PUBLIC_KEY_LENGTH) IN
                IF ~pk.ok THEN UnwrapErr(pk.err, NoIdentifier, pk.ctx)
                ELSE UnwrapOk(EdPubKey(pk.val), pk.ctx)
           [] oneof.val[1] = 1 ->
                LET pskid == UnwrapMask(oneof.ctx, PSKID_SIZE) IN
                IF ~pskid.ok THEN UnwrapErr(pskid.err, NoIdentifier, pskid.ctx)
                ELSE UnwrapOk(PskId(pskid.val), pskid.ctx)
           [] OTHER -> UnwrapErr(BadOneof, NoIdentifier, oneof.ctx)

\* a to_bytes that writes the tag as well
ToBytesTagged(identifier) ==
    <<IF identifier.kind = "EdPubKey" THEN 0 ELSE 1>> \o identifier.bytes

\* Identifier::to_bytes: the bytes of the public key, or of the PskId
ToBytes(identifier) ==
    IF identifier.kind = "EdPubKey" THEN identifier.bytes ELSE identifier.bytes

IdentifierGenerationFailure == "IdentifierGenerationFailure"
SignatureError == "ed25519::SignatureError"

\* ed25519::PublicKey::from_bytes: the key, when the bytes are those of a key
Ed25519PublicKeyFromBytes(bytes) ==
    IF bytes \in PublicKeys
    THEN [ok |-> TRUE, err |-> "", pk |-> bytes]
    ELSE [ok |-> FALSE, err |-> SignatureError, pk |-> <<>>]

\* Identifier::from_bytes: the variant is chosen by the length of the slice
FromBytes(bytes) ==
    CASE Len(bytes) = PUBLIC_KEY_LENGTH ->
            LET pk == Ed25519PublicKeyFromBytes(bytes) IN
            IF pk.ok THEN UnwrapOk(EdPubKey(pk.pk), <<>>)
            ELSE UnwrapErr(pk.err, NoIdentifier, <<>>)
      [] Len(bytes) = PSKID_SIZE -> UnwrapOk(PskId(bytes), <<>>)
      [] OTHER -> UnwrapErr(IdentifierGenerationFailure, NoIdentifier, <<>>)

\* slices given to from_bytes that no to_bytes returned: of other lengths, of
\* the length of a key without being one, of the length of a PskId
OtherSlices ==
    {[i \in 1..n |-> 7] : n \in {0, 1, PSKID_SIZE - 1, PSKID_SIZE, PSKID_SIZE + 1,
                                  PUBLIC_KEY_LENGTH - 1, PUBLIC_KEY_LENGTH,
                                  PUBLIC_KEY_LENGTH + 1, 2 * PUBLIC_KEY_LENGTH}}

\* the exchange before anything is wrapped
NoExchange ==
    [op |-> "none", sent |-> NoIdentifier, spongos |-> 0, size |-> 0, wire |-> <<>>,
     input |-> <<>>, rspongos |-> 0,
     prior |-> NoIdentifier, ok |-> FALSE, err |-> "", value |-> NoIdentifier]

\* the streams a receiver may be handed for a wrapped Identifier: the bytes
\* written, with bytes of the next field behind them, cut short, or with
\* another tag byte
Deliveries(wire) ==
    {wire, wire \o <<9, 9>>}
        \cup {SubSeq(wire, 1, n) : n \in {0, 1, PSKID_SIZE, Len(wire) - 1}}
        \cup {<<t>> \o Tail(wire) : t \in {0, 1, 2, 255}}

\* ----------------------------------------------------------------- Announce
SIGNATURE_LENGTH == 64

\* Identity: an Identifier and the secret that signs for it; the Ed25519
\* secret of the k-th public key is k, a PSK identity signs with nothing
Identities ==
    {[identifier |-> EdPubKey([i \in 1..PUBLIC_KEY_LENGTH |-> i]), secret |-> 1],
     [identifier |-> EdPubKey([i \in 1..PUBLIC_KEY_LENGTH |-> 256 - i]), secret |-> 2],
     [identifier |-> PskId([i \in 1..PSKID_SIZE |-> 2 * i]), secret |-> 0]}

\* Identifier byte encoding: tag, then payload
Encode(identifier) ==
    <<IF identifier.kind = "EdPubKey" THEN 0 ELSE 1>> \o identifier.bytes

\* the sponge after commit and after squeeze, and the hash it squeezes
SpongosCommit(spongos) == (spongos * 7 + 3) % 251
SpongosSqueeze(spongos) == (spongos * 5 + 11) % 251
Hash(spongos) == (spongos * 13 + 2) % 251

\* the Ed25519 signature of a hash: determined by the secret and the hash, and
\* different for different secrets or hashes
Signature(secret, hash) ==
    [i \in 1..SIGNATURE_LENGTH |->
        IF i = 1 THEN hash ELSE IF i = 2 THEN secret ELSE (hash + secret + i) % 256]

\* Ed25519 verification: the signature is the one the owner of the public key
\* makes for the hash
Ed25519Verify(pk, hash, sig) ==
    \E identity \in Identities :
        /\ identity.identifier = EdPubKey(pk)
        /\ sig = Signature(identity.secret, hash)

\* sizeof::Context for a message: the size so far and the verbs executed
SizeofContext == [size |-> 0, verbs |-> <<>>]

SizeofMaskIdentifier(ctx, identifier) ==
    [size |-> SizeofMask(ctx.size, Encode(identifier)), verbs |-> Append(ctx.verbs, "mask")]

SignSizeof(ctx, identity) ==
    [size |-> ctx.size + (IF identity.identifier.kind = "EdPubKey" THEN SIGNATURE_LENGTH ELSE 0),
     verbs |-> Append(ctx.verbs, "sign")]

SizeofCommit(ctx) == [size |-> ctx.size, verbs |-> Append(ctx.verbs, "commit")]

\* a sizeof that forgets the signature
AnnouncementSizeofUnsigned(identity) ==
    SizeofCommit(SizeofMaskIdentifier(SizeofContext, identity.identifier))

\* ContentSizeof<Wrap> for sizeof::Context
AnnouncementSizeof(identity) ==
    SizeofCommit(SignSizeof(SizeofMaskIdentifier(SizeofContext, identity.identifier), identity))

\* wrap::Context / unwrap::Context for a message: stream, sponge, the verbs
\* executed and the error that stopped it ("" while it runs)
MessageContext(stream, spongos) ==
    [stream |-> stream, spongos |-> spongos, verbs |-> <<>>, err |-> ""]

\* wrap mask of an Identifier: the tag, then the payload
WrapMaskIdentifier(ctx, identifier) ==
    LET e == Encode(identifier)
        c == WrapMask(WrapMask(Context(ctx.stream, ctx.spongos), <<Head(e)>>), Tail(e))
    IN
    [ctx EXCEPT !.stream = c.stream, !.spongos = c.spongos, !.verbs = Append(@, "mask")]

\* ContentSign: the sponge squeezes a hash, the identity signs it and the
\* signature is written; nothing for a PSK identity
Sign(ctx, identity) ==
    IF identity.identifier.kind = "EdPubKey"
    THEN [ctx EXCEPT !.stream = @ \o Signature(identity.secret, Hash(ctx.spongos)),
                     !.spongos = SpongosSqueeze(@),
                     !.verbs = Append(@, "sign")]
    ELSE [ctx EXCEPT !.verbs = Append(@, "sign")]

WrapCommit(ctx) ==
    [ctx EXCEPT !.spongos = SpongosCommit(@), !.verbs = Append(@, "commit")]

\* a wrap that commits before it signs
AnnouncementWrapCommitFirst(identity, ctx) ==
    Sign(WrapCommit(WrapMaskIdentifier(ctx, identity.identifier)), identity)

\* ContentWrap<Wrap> for wrap::Context
AnnouncementWrap(identity, ctx) ==
    WrapCommit(Sign(WrapMaskIdentifier(ctx, identity.identifier), identity))

Stopped(ctx, e) == [ctx EXCEPT !.err = e]

\* unwrap mask of an Identifier: the tag, then the payload the tag announces
UnwrapMaskIdentifier(ctx) ==
    LET oneof == UnwrapMask(Context(ctx.stream, ctx.spongos), 1)
        done(c) == [ctx EXCEPT !.stream = c.stream, !.spongos = c.spongos,
                               !.verbs = Append(@, "mask")]
    IN
    IF ~oneof.ok THEN [ctx |-> Stopped(ctx, oneof.err), author_id |-> NoIdentifier]
    ELSE CASE oneof.val[1] = 0 ->
                LET pk == UnwrapMask(oneof.ctx, PUBLIC_KEY_LENGTH) IN
                IF ~pk.ok THEN [ctx |-> Stopped(ctx, pk.err), author_id |-> NoIdentifier]
                ELSE [ctx |-> done(pk.ctx), author_id |-> EdPubKey(pk.val)]
           [] oneof.val[1] = 1 ->
                LET pskid == UnwrapMask(oneof.ctx, PSKID_SIZE) IN
                IF ~pskid.ok THEN [ctx |-> Stopped(ctx, pskid.err), author_id |-> NoIdentifier]
                ELSE [ctx |-> done(pskid.ctx), author_id |-> PskId(pskid.val)]
           [] OTHER -> [ctx |-> Stopped(ctx, BadOneof), author_id |-> NoIdentifier]

BadSignature == "BadSignature"

\* ContentVerify: the sponge squeezes the hash and the signature read from the
\* stream is verified against the identifier; nothing for a PskId
Verify(ctx, verifier) ==
    IF ctx.err # "" THEN ctx
    ELSE IF verifier.kind = "EdPubKey"
    THEN IF Len(ctx.stream) < SIGNATURE_LENGTH THEN Stopped(ctx, StreamExhausted)
         ELSE IF ~Ed25519Verify(verifier.bytes, Hash(ctx.spongos),
                                SubSeq(ctx.stream, 1, SIGNATURE_LENGTH))
              THEN Stopped(ctx, BadSignature)
              ELSE [ctx EXCEPT !.stream = SubSeq(@, SIGNATURE_LENGTH + 1, Len(@)),
                               !.spongos = SpongosSqueeze(@),
                               !.verbs = Append(@, "sign")]
    ELSE [ctx EXCEPT !.verbs = Append(@, "sign")]

\* a commit that leaves the sponge as it is
UnwrapCommitSkipped(ctx) ==
    IF ctx.err # "" THEN ctx
    ELSE [ctx EXCEPT !.verbs = Append(@, "commit")]

\* a commit that reads the stream to its end
UnwrapCommitDrains(ctx) ==
    IF ctx.err # "" THEN ctx
    ELSE [ctx EXCEPT !.spongos = SpongosCommit(@), !.stream = <<>>,
                     !.verbs = Append(@, "commit")]

\* Commit for unwrap::Context: commits the sponge, cannot fail
UnwrapCommit(ctx) ==
    IF ctx.err # "" THEN ctx
    ELSE [ctx EXCEPT !.spongos = SpongosCommit(@), !.verbs = Append(@, "commit")]

\* an unwrap that does not verify
AnnouncementUnwrapUnverified(ctx) ==
    LET m == UnwrapMaskIdentifier(ctx) IN
    [ctx |-> UnwrapCommit(m.ctx), author_id |-> m.author_id]

\* ContentUnwrap<Unwrap> for unwrap::Context: the context after it and the
\* author_id of the Unwrap it filled
AnnouncementUnwrap(ctx) ==
    LET m == UnwrapMaskIdentifier(ctx) IN
    [ctx |-> UnwrapCommit(Verify(m.ctx, m.author_id)), author_id |-> m.author_id]

\* the blobs a receiver may be handed for a wrapped Announce: the blob, the
\* blob cut short, and the blob with one byte changed
Tampered(wire) ==
    {SubSeq(wire, 1, Len(wire) - 1)}
        \cup {[wire EXCEPT ![p] = (@ + d) % 256] :
                 p \in {1, 2, PSKID_SIZE + 1} \cup {n \in {PUBLIC_KEY_LENGTH + 1,
                        PUBLIC_KEY_LENGTH + 2, PUBLIC_KEY_LENGTH + 3,
                        PUBLIC_KEY_LENGTH + 1 + SIGNATURE_LENGTH} : n <= Len(wire)},
                 d \in {1, 128, 255}}

\* the Announce exchange before anything is wrapped
NoAnnounce ==
    [identity |-> [identifier |-> NoIdentifier, secret |-> 0], spongos |-> 0,
     size |-> 0, sizeof_verbs |-> <<>>, wire |-> <<>>, wrap_verbs |-> <<>>,
     input |-> <<>>, ok |-> FALSE, err |-> "", unwrap_verbs |-> <<>>,
     author_id |-> NoIdentifier, wrap_spongos |-> 0, unwrap_spongos |-> 0,
     rest |-> <<>>]

\* ------------------------------------------------- Rc<RefCell<transport>>
\* the calls that hold the RefMut of the shared transport: borrow_mut() is
\* called when the call starts and the RefMut lives until its await returns;
\* the reader's next() is inside recv_message while it is pending
BorrowHolders == (IF pc = "running" THEN {Reader} ELSE {}) \cup {c.publisher : c \in sending}

\* borrow_mut() found the RefCell borrowed: the task panics
BorrowMutPanicked == Cardinality(BorrowHolders) > 1

\* ------------------------------------------------------------ tangle blocks
\* TransportMessage: a wrapper around the bytes of a message
TransportMessage(body) == [body |-> body]

\* From<TransportMessage> for Vec<u8>
IntoVec(msg) == msg.body

\* the messages sent in the exchanges explored
TangleBodies == {<<>>, <<12>>, <<12, 12>>, <<0, 255>>}

\* a Block of the tangle: its payload is tagged data, something else, or absent
TaggedData(tag, data) == [kind |-> "TaggedData", tag |-> tag, data |-> data]
OtherPayload(kind) == [kind |-> kind, tag |-> NoAddr, data |-> <<>>]
Block(payload) == [payload |-> payload]

\* the blocks other clients of the node publish
ForeignBlocks ==
    {Block(OtherPayload("Transaction")), Block(OtherPayload("Milestone")),
     Block(OtherPayload("none"))}

Malformed == "Malformed(payload from the Tangle: missing TaggedData)"
SendingFailure == "IotaClient(sending message)"

\* a conversion that takes whatever the block carries
TryFromBlockAnyPayload(block) ==
    [ok |-> TRUE, msg |-> TransportMessage(block.payload.data), err |-> ""]

\* TryFrom<Block> for TransportMessage
TryFromBlock(block) ==
    IF block.payload.kind = "TaggedData"
    THEN [ok |-> TRUE, msg |-> TransportMessage(block.payload.data), err |-> ""]
    ELSE [ok |-> FALSE, msg |-> TransportMessage(<<>>), err |-> Malformed]

\* build_block().with_tag(tag).with_data(data).finish(): the block the node
\* accepted, or the failure of the node
BuildBlock(node_ok, tag, data) ==
    IF node_ok
    THEN [ok |-> TRUE, block |-> Block(TaggedData(tag, data)), err |-> ""]
    ELSE [ok |-> FALSE, block |-> Block(OtherPayload("none")), err |-> SendingFailure]

\* Address::to_msg_index: the index of an address, a pure function that gives
\* different addresses different indexes
ToMsgIndex(address) == <<"msg_index", address>>

\* MessageIndex::get_tag_value: the tag the index service gives a msg_index, or
\* its error
TagFailure == "MessageIndex(get_tag_value)"
GetTagValue(index_ok, msg_index) ==
    IF index_ok THEN [ok |-> TRUE, tag |-> <<"tag", msg_index>>, err |-> ""]
    ELSE [ok |-> FALSE, tag |-> NoAddr, err |-> TagFailure]

\* Client::send_message: the tag of the address, the block, the response
\* converted from the block
TangleSendMessage(index_ok, node_ok, address, msg) ==
    LET t == GetTagValue(index_ok, ToMsgIndex(address))
        b == BuildBlock(node_ok, t.tag, IntoVec(msg))
    IN
    IF ~t.ok
    THEN [ok |-> FALSE, msg |-> TransportMessage(<<>>), err |-> t.err, block |-> b.block]
    ELSE IF ~b.ok
    THEN [ok |-> FALSE, msg |-> TransportMessage(<<>>), err |-> b.err, block |-> b.block]
    ELSE [ok |-> TryFromBlock(b.block).ok, msg |-> TryFromBlock(b.block).msg,
          err |-> TryFromBlock(b.block).err, block |-> b.block]

\* the tangle client before it did anything
NoTangleCall ==
    [op |-> "none", address |-> NoAddr, msg |-> TransportMessage(<<>>),
     block |-> Block(OtherPayload("none")), ok |-> FALSE, err |-> "",
     response |-> TransportMessage(<<>>), msgs |-> <<>>]

\* ------------------------------------------------------------ transport
EmptyTransport == [a \in AllAddr |-> <<>>]

\* bucket transport: send_message stores the blob under the address
Put(t, a, b) == [t EXCEPT ![a] = Append(@, b)]

\* the Transport implementations: the in-memory bucket and the tangle client
Clients == {"bucket", "tangle"}

\* Result<Vec<Msg>> of recv_messages
RecvOk(msgs) == [ok |-> TRUE, msgs |-> msgs, err |-> ""]
RecvErr(e) == [ok |-> FALSE, msgs |-> <<>>, err |-> e]

\* lets::error::Error values a transport call fails with
NotFound == "AddressError(not found in transport)"
MoreThanOne == "AddressError(More than one found)"
MessageMissing == "MessageMissing(transport)"
NativeFailure == "IotaClient(node unreachable)"

\* MessageIndex::get_messages_by_msg_index of the tangle client: the blobs
\* indexed under the address, or the failure of the node
GetMessagesByMsgIndex(f, t, address) ==
    {RecvOk(t[address])} \cup (IF f THEN {RecvErr(NativeFailure)} ELSE {})

\* recv_messages of the bucket: every blob stored under the address
BucketRecvMessages(t, address) == RecvOk(t[address])

\* recv_messages of a tangle client that returns the empty list as it is
TangleRecvMessagesNoCheck(idx) == idx

\* recv_messages of the tangle client, idx being what the index service
\* answered: its error is propagated, an empty answer is MessageMissing
TangleRecvMessages(idx) ==
    IF ~idx.ok
    THEN idx
    ELSE IF idx.msgs = <<>>
         THEN RecvErr(MessageMissing)
         ELSE RecvOk(idx.msgs)

\* the orders in which the elements of a set may be listed
Listings(S) ==
    LET n == Cardinality(S) IN
    {f \in [1..n -> S] : \A i, j \in 1..n : f[i] = f[j] => i = j}

\* MessageIndex::get_messages_by_msg_index of a faithful index service: all the
\* messages of the blocks tagged with the tag of the msg_index, or its error
IndexFailure == "MessageIndex(get_messages_by_msg_index)"
IndexAnswer(index_ok, blocks, msg_index) ==
    IF index_ok
    THEN {RecvOk(msgs) :
             msgs \in Listings({TransportMessage(b.payload.data) :
                                   b \in {c \in blocks :
                                             /\ c.payload.kind = "TaggedData"
                                             /\ c.payload.tag
                                                    = GetTagValue(TRUE, msg_index).tag}})}
    ELSE {RecvErr(IndexFailure)}

\* a recv_messages that asks the index service for the tag instead of the index
TangleRecvQueryByTag(index_ok, blocks, address) ==
    IndexAnswer(index_ok, blocks, GetTagValue(TRUE, ToMsgIndex(address)).tag)

\* Client::recv_messages: the query it makes to the index service
TangleRecvQuery(index_ok, blocks, address) ==
    IndexAnswer(index_ok, blocks, ToMsgIndex(address))

\* Transport::recv_messages: what the call may return
RecvMessages(c, f, t, address) ==
    IF c = "tangle"
    THEN {TangleRecvMessages(idx) : idx \in GetMessagesByMsgIndex(f, t, address)}
    ELSE {BucketRecvMessages(t, address)}

\* recv_message that returns the blob it popped although others are left
RecvMessageLast(r) ==
    IF ~r.ok
    THEN [ok |-> FALSE, msg |-> NoAddr, err |-> r.err]
    ELSE IF r.msgs # <<>>
         THEN [ok |-> TRUE, msg |-> r.msgs[Len(r.msgs)], err |-> ""]
         ELSE [ok |-> FALSE, msg |-> NoAddr, err |-> NotFound]

\* Transport::recv_message, r being what recv_messages returned: the single
\* blob of the address, or an error
RecvMessage(r) ==
    IF ~r.ok
    THEN \* recv_messages(address).await?
         [ok |-> FALSE, msg |-> NoAddr, err |-> r.err]
    ELSE IF r.msgs # <<>>
         THEN \* msgs.pop() takes the last one; msgs must be empty after it
              IF SubSeq(r.msgs, 1, Len(r.msgs) - 1) = <<>>
              THEN [ok |-> TRUE, msg |-> r.msgs[Len(r.msgs)], err |-> ""]
              ELSE [ok |-> FALSE, msg |-> NoAddr, err |-> MoreThanOne]
         ELSE [ok |-> FALSE, msg |-> NoAddr, err |-> NotFound]

\* no recv_message call was made by the latest step of next()
NoRecv == [address |-> NoAddr, res |-> RecvOk(<<>>), out |-> RecvMessage(RecvErr(""))]

\* addresses under which the transport holds a blob
Present(t) == {a \in AllAddr : t[a] # <<>>}

\* ------------------------------------------------------ the user (reader)
\* a probe round: the pairs user.cursors() gave when it started, the cursors
\* and the store of the user then, and the probes done since
Round(ids, cur, store, probed) ==
    [ids |-> ids, cursors |-> cur, store |-> store, probed |-> probed]

\* a probe of a round: the pair popped, the address fetched, whether a blob came
ProbeOf(id_cursor, address, hit) == [id |-> id_cursor, address |-> address, hit |-> hit]

\* before the first round
NoRound == Round(<<>>, <<>>, {}, <<>>)

\* User::cursors(): the (publisher, cursor) pairs, in the order the map yields them
CursorOrders(cur) ==
    LET n == Cardinality(DOMAIN cur) IN
    {[i \in 1..n |-> <<f[i], cur[f[i]]>>] :
        f \in {g \in [1..n -> DOMAIN cur] : \A i, j \in 1..n : g[i] = g[j] => i = j}}

\* cursor store after a message of `publisher` with sequence number `seq` was seen
InsertCursor(cur, publisher, seq) ==
    [p \in DOMAIN cur \cup {publisher} |->
        IF p = publisher
        THEN (IF p \in DOMAIN cur THEN MaxOf(cur[p], seq) ELSE seq)
        ELSE cur[p]]

\* cursor store after the subscribers listed in a keyload were registered
AddSubscribers(cur, subs) ==
    [p \in DOMAIN cur \cup subs |-> IF p \in DOMAIN cur THEN cur[p] ELSE INITIAL_CURSOR]

\* User::handle_message(address, blob): the outcome and the user state after it.
\* The cursor of the publisher is moved first: the message exists whatever its
\* content.  A keyload is unwrapped from the announce snapshot and registers
\* the subscribers it lists; a packet needs the snapshot of the message it links.
HandleMessage(cur, store, address, blob) ==
    LET cur1 == InsertCursor(cur, address[1], address[2]) IN
    IF blob.kind = "Announce"
    THEN \* no linked message: unwrapped from the initial state
         IF blob.cls = "ok"
         THEN [res |-> "Ok", cursors |-> cur1, store |-> store \cup {address}]
         ELSE [res |-> "Err", cursors |-> cur1, store |-> store]
    ELSE IF blob.kind = "Keyload"
    THEN IF blob.cls = "ok"
         THEN [res |-> "Ok", cursors |-> AddSubscribers(cur1, blob.subs),
               store |-> store \cup {address}]
         ELSE [res |-> "Err", cursors |-> cur1, store |-> store]
    ELSE IF blob.linked \notin store
         THEN [res |-> "Orphan", cursors |-> cur1, store |-> store]
         ELSE IF blob.cls = "ok"
              THEN [res |-> "Ok", cursors |-> cur1, store |-> store \cup {address}]
              ELSE [res |-> "Err", cursors |-> cur1, store |-> store]

\* ------------------------------------------------------------- scenarios
ChainPayloads == <<"msk1", "msk2", "msk3", "msk4">>

RECURSIVE Chain(_, _)
\* keyload for everyone at author/2 followed by n signed packets, each linked
\* to the previous message
Chain(t, n) ==
    IF n = 0
    THEN Put(t, Gen(Author, 2), Blob("Keyload", Ann, "ok", "", {Reader}))
    ELSE Put(Chain(t, n - 1), Gen(Author, 2 + n),
             Blob("SignedPacket", Gen(Author, 1 + n), "ok", ChainPayloads[n], {}))

\* S1: single branch K -> P1 -> ... -> Pn
TransportS1 == Chain(EmptyTransport, ChainLen)

\* S2: K -> P1 by the author, P2 by subscriber 1; an earlier keyload K0, already
\* received by the reader, made subscriber 1 known
TransportS2 ==
    Put(Put(Put(Put(EmptyTransport,
        Gen(Author, 2), Blob("Keyload", Ann, "ok", "", {Sub1, Reader})),
        Gen(Author, 3), Blob("Keyload", Ann, "ok", "", {Sub1, Reader})),
        Gen(Author, 4), Blob("SignedPacket", Gen(Author, 3), "ok", "msk1", {})),
        Gen(Sub1, 2), Blob("SignedPacket", Gen(Author, 4), "ok", "msk2", {}))

\* S3: K1 by the author, P1 and P2 by subscriber 1 under K1 (the reader joined
\* later and cannot read them), K2 linked to P2, P3 by subscriber 1 under K2
TransportS3 ==
    Put(Put(Put(Put(Put(EmptyTransport,
        Gen(Author, 2), Blob("Keyload", Ann, "ok", "", {Sub1})),
        Gen(Sub1, 2), Blob("SignedPacket", Gen(Author, 2), "bad", "payload", {})),
        Gen(Sub1, 3), Blob("SignedPacket", Gen(Sub1, 2), "bad", "payload", {})),
        Gen(Author, 3), Blob("Keyload", Gen(Sub1, 3), "ok", "", {Sub1, Reader})),
        Gen(Sub1, 4), Blob("SignedPacket", Gen(Author, 3), "ok", "payload", {}))

\* S4: two branches from the announce, each keyload, tag, two packets
BranchS4(t, first, tag, p1, p2) ==
    Put(Put(Put(Put(t,
        Gen(Author, first), Blob("Keyload", Ann, "ok", "", {Reader})),
        Gen(Author, first + 1), Blob("SignedPacket", Gen(Author, first), "ok", tag, {})),
        Gen(Author, first + 2), Blob("SignedPacket", Gen(Author, first + 1), "ok", p1, {})),
        Gen(Author, first + 3), Blob("SignedPacket", Gen(Author, first + 2), "ok", p2, {}))

TransportS4 ==
    BranchS4(BranchS4(EmptyTransport, 2, "branch 1",
                      "masked payload in branch 1", "another masked payload in branch 1"),
             6, "branch 2",
             "masked payload in branch 2", "another masked payload in branch 2")

\* cursors of a subscriber that received the announce and subscribed
Subscribed == [p \in {Author, Reader} |-> INITIAL_CURSOR]

\* the reader of S2 before K -> P1 -> P2 were sent: only K0 is in the transport
TransportK0 ==
    Put(EmptyTransport, Gen(Author, 2), Blob("Keyload", Ann, "ok", "", {Sub1, Reader}))

\* fan-out: the reader of S2 after K0; the author sent X and P under K0, and
\* subscriber 1 sent C1 and C2, both linked to P
TransportFanOut ==
    Put(Put(Put(Put(Put(EmptyTransport,
        Gen(Author, 2), Blob("Keyload", Ann, "ok", "", {Sub1, Reader})),
        Gen(Author, 3), Blob("SignedPacket", Gen(Author, 2), "ok", "x", {})),
        Gen(Author, 4), Blob("SignedPacket", Gen(Author, 2), "ok", "p", {})),
        Gen(Sub1, 2), Blob("SignedPacket", Gen(Author, 4), "ok", "c1", {})),
        Gen(Sub1, 3), Blob("SignedPacket", Gen(Author, 4), "ok", "c2", {}))

\* dup: the reader of S2 after K0; the packet at author/3 was stored twice, and
\* subscriber 1 sent a packet under K0
TransportDup ==
    Put(Put(Put(Put(EmptyTransport,
        Gen(Author, 2), Blob("Keyload", Ann, "ok", "", {Sub1, Reader})),
        Gen(Author, 3), Blob("SignedPacket", Gen(Author, 2), "ok", "twice", {})),
        Gen(Author, 3), Blob("SignedPacket", Gen(Author, 2), "ok", "twice", {})),
        Gen(Sub1, 2), Blob("SignedPacket", Gen(Author, 2), "ok", "once", {}))

\* kinds: the reader of S2 after K0, the announce and the subscription of
\* subscriber 1 being in the transport as well; the author sent a tagged packet
\* under K0, subscriber 1 an unsubscription under K0 and then a packet whose
\* parent is not in the transport
TransportKinds ==
    Put(Put(Put(Put(Put(Put(EmptyTransport,
        Ann, Blob("Announce", NoAddr, "ok", "", {})),
        Gen(Sub1, INITIAL_CURSOR), Blob("Subscribe", Ann, "ok", "", {})),
        Gen(Author, 2), Blob("Keyload", Ann, "ok", "", {Sub1, Reader})),
        Gen(Author, 3), Blob("TaggedPacket", Gen(Author, 2), "ok", "tagged", {})),
        Gen(Sub1, 2), Blob("Unsubscribe", Gen(Author, 2), "ok", "", {})),
        Gen(Sub1, 3), Blob("SignedPacket", Gen(Author, 5), "ok", "lost", {}))

\* late: the reader of S2 after K0; the author sent X and then P under K0,
\* subscriber 1 sent C linked to P and then D linked to K0
TransportLate ==
    Put(Put(Put(Put(Put(EmptyTransport,
        Gen(Author, 2), Blob("Keyload", Ann, "ok", "", {Sub1, Reader})),
        Gen(Author, 3), Blob("SignedPacket", Gen(Author, 2), "ok", "x", {})),
        Gen(Author, 4), Blob("SignedPacket", Gen(Author, 2), "ok", "p", {})),
        Gen(Sub1, 2), Blob("SignedPacket", Gen(Author, 4), "ok", "c", {})),
        Gen(Sub1, 3), Blob("SignedPacket", Gen(Author, 2), "ok", "d", {}))

\* parents: the reader of S2 after K0; the author sent X1, X2, X3 and P under K0
\* and then Q linked to P, subscriber 1 sent C1, C2 and C3, all linked to P, and
\* then E linked to Q; the reader cannot unwrap C2
TransportParents ==
    Put(Put(Put(Put(Put(Put(Put(Put(Put(Put(EmptyTransport,
        Gen(Author, 2), Blob("Keyload", Ann, "ok", "", {Sub1, Reader})),
        Gen(Author, 3), Blob("SignedPacket", Gen(Author, 2), "ok", "x1", {})),
        Gen(Author, 4), Blob("SignedPacket", Gen(Author, 2), "ok", "x2", {})),
        Gen(Author, 5), Blob("SignedPacket", Gen(Author, 2), "ok", "x3", {})),
        Gen(Author, 6), Blob("SignedPacket", Gen(Author, 2), "ok", "p", {})),
        Gen(Author, 7), Blob("SignedPacket", Gen(Author, 6), "ok", "q", {})),
        Gen(Sub1, 2), Blob("SignedPacket", Gen(Author, 6), "ok", "c1", {})),
        Gen(Sub1, 3), Blob("SignedPacket", Gen(Author, 6), "bad", "c2", {})),
        Gen(Sub1, 4), Blob("SignedPacket", Gen(Author, 6), "ok", "c3", {})),
        Gen(Sub1, 5), Blob("SignedPacket", Gen(Author, 7), "ok", "e", {}))

\* "free" and "synced": the publishers send while the reader iterates, the reader
\* being a new subscriber or one that received a first keyload already;
\* "fresh": a user that has not received the announce; "nostream": a user that
\* knows publishers but has no stream address; "nocursors": a user with a stream
\* address whose cursor store is empty
Scenarios == {"free", "synced", "S1", "S2", "S3", "S4", "fanout", "fresh", "dup",
              "kinds", "late", "parents", "nostream", "nocursors"}

\* the scenarios whose reader received the keyload K0 before it iterates
AfterK0 == {"S2", "synced", "fanout", "dup", "kinds", "late", "parents"}

\* user state the iteration starts from
InitCursors(sc) ==
    CASE sc \in {"fresh", "nocursors"} -> <<>>
      [] sc \in AfterK0 -> [p \in Pubs |-> IF p = Author THEN 2 ELSE INITIAL_CURSOR]
      [] OTHER -> Subscribed

InitStore(sc) ==
    CASE sc \in {"fresh", "nostream", "nocursors"} -> {}
      [] sc \in AfterK0 -> {Ann, Gen(Author, 2)}
      [] OTHER -> {Ann}

\* the states iteration starts from; pred is the predicate given to filter_branch
InitWith(pred) ==
    /\ scenario \in Scenarios
    /\ budget = IF scenario \in {"free", "synced"} THEN MaxSent ELSE 0
    /\ transport = CASE scenario = "S1" -> TransportS1
                     [] scenario = "S2" -> TransportS2
                     [] scenario = "S3" -> TransportS3
                     [] scenario = "S4" -> TransportS4
                     [] scenario = "synced" -> TransportK0
                     [] scenario = "fanout" -> TransportFanOut
                     [] scenario = "dup" -> TransportDup
                     [] scenario = "kinds" -> TransportKinds
                     [] scenario = "late" -> TransportLate
                     [] scenario = "parents" -> TransportParents
                     [] OTHER -> EmptyTransport
    /\ stream_address = IF scenario \in {"fresh", "nostream"} THEN None ELSE "base"
    /\ cursors = InitCursors(scenario)
    /\ spongos_store = InitStore(scenario)
    /\ ids_stack = <<>>
    /\ msg_queue = <<>>
    /\ stage = <<>>
    /\ successful_round = FALSE
    /\ pc = "idle"
    /\ result = RetPending
    /\ yielded = <<>>
    /\ yieldedAt = <<>>
    /\ fetched = <<>>
    /\ dirty = FALSE
    /\ noneSeen = FALSE
    /\ restarted = FALSE
    /\ fb_pred = pred
    /\ fb_skipping = TRUE
    /\ branch_last_address = NoAddr
    /\ fb_out = <<>>
    /\ last_recv = NoRecv
    /\ cancelled = "no"
    /\ sending = {}
    /\ id_pc = "start"
    /\ id_self = NoIdentifier
    /\ id_ctx = Context(<<>>, 0)
    /\ id_out = NoExchange
    /\ an_pc = "start"
    /\ an_out = NoAnnounce
    /\ tg_blocks = ForeignBlocks
    /\ tg_out = NoTangleCall
    /\ tg_sent = {}
    /\ probe_round = NoRound

\* the users share a bucket
InitBucket ==
    /\ client = "bucket"
    /\ faulty = FALSE

\* filter_branch with the predicate "the masked payload is not `branch 2`"
Init == InitWith("branch 2") /\ InitBucket

\* filter_branch with an arbitrary predicate
InitAnyPredicate == InitWith("any") /\ InitBucket

\* the runs in which the transport is looked at: either client, the node of
\* the tangle client reachable or not
TransportScenarios == {"S1", "S3", "synced", "dup"}

InitTransport ==
    /\ InitWith("branch 2")
    /\ scenario \in TransportScenarios
    /\ client \in Clients
    /\ faulty \in (IF client = "tangle" THEN BOOLEAN ELSE {FALSE})

\* ---------------------------------------------------------- filter_branch
\* the values the predicate of filter_branch may return for a message
PredValues(pred, m) == IF pred = "any" THEN BOOLEAN ELSE {m.payload # pred}

\* filter_branch whose scan never moves branch_last_address
FilterBranchKeepLast(st, m, pv) ==
    IF st.skipping /\ pv
    THEN st
    ELSE IF m.linked = NoAddr
         THEN [st EXCEPT !.skipping = FALSE]
         ELSE LET last == IF st.last = NoAddr THEN m.linked ELSE st.last IN
              IF m.linked = last
              THEN [skipping |-> FALSE, last |-> last, out |-> Append(st.out, m)]
              ELSE [skipping |-> FALSE, last |-> last, out |-> st.out]

\* filter_branch without try_skip_while
FilterBranchNoSkip(st, m, pv) ==
    IF m.linked = NoAddr
    THEN [st EXCEPT !.skipping = FALSE]
    ELSE LET last == IF st.last = NoAddr THEN m.linked ELSE st.last IN
         IF m.linked = last
         THEN [skipping |-> FALSE, last |-> m.address, out |-> Append(st.out, m)]
         ELSE [skipping |-> FALSE, last |-> last, out |-> st.out]

\* Messages::filter_branch: try_skip_while(predicate), then scan with
\* branch_last_address, then try_filter_map; st is the state of the adapters,
\* pv the value of the predicate for m
FilterBranch(st, m, pv) ==
    IF st.skipping /\ pv
    THEN st
    ELSE IF m.linked = NoAddr
         THEN [st EXCEPT !.skipping = FALSE]
         ELSE LET last == IF st.last = NoAddr THEN m.linked ELSE st.last IN
              IF m.linked = last
              THEN [skipping |-> FALSE, last |-> m.address, out |-> Append(st.out, m)]
              ELSE [skipping |-> FALSE, last |-> last, out |-> st.out]

\* StreamExt::skip(n) over the items a stream yielded
Skip(out, n) == SubSeq(out, n + 1, Len(out))

\* ------------------------------------------------------------ the iterator
\* next() that queues an orphan under its own address
QueuePushOwnKey(q, key, item) ==
    [k \in DOMAIN q \cup {item[1]} |->
        IF k = item[1]
        THEN (IF k \in DOMAIN q THEN Append(q[k], item) ELSE <<item>>)
        ELSE q[k]]

\* msg_queue.entry(key).or_default().push_back(item)
QueuePush(q, key, item) ==
    [k \in DOMAIN q \cup {key} |->
        IF k = key
        THEN (IF k \in DOMAIN q THEN Append(q[k], item) ELSE <<item>>)
        ELSE q[k]]

\* next() that forgets every queue when a message is yielded
QueueClear(q, key) == <<>>

\* msg_queue.remove(key): the map without the key
QueueRemove(q, key) == [k \in DOMAIN q \ {key} |-> q[k]]

\* state of the user and of the iterator a step of next() works on, and what
\* the step returns (RetPending: next() goes on to probe)
St(cur, store, stg, q, ret) ==
    [cursors |-> cur, store |-> store, stage |-> stg, msg_queue |-> q, ret |-> ret]

\* next() with an orphan arm that never matches
IsOrphanNever(h, binary_msg) == FALSE

\* the match arm `Ok(Message { header: HDF { linked_msg_address: Some(..) },
\* content: MessageContent::Orphan(..) })` of next()
IsOrphan(h, binary_msg) == h.res = "Orphan" /\ binary_msg.linked # NoAddr

\* next() without the error arm
IsHandlingErrorNever(h) == FALSE

\* the match arm `Err(_e)` of next()
IsHandlingError(h) == h.res = "Err"

\* next() that forgets the blobs queued under the yielded address
WakeNone(rest, q, address) == rest

\* stage after a message was yielded: the blobs queued under its address, if
\* any, are appended (stage.extend(msgs))
Wake(rest, q, address) == IF address \in DOMAIN q THEN rest \o q[address] ELSE rest

RECURSIVE HandleStaged(_, _, _, _, _)
\* next() while stage is not empty: pop a staged blob and handle it; an orphan
\* is queued under the address it links, an error is skipped, and next() calls
\* itself; any other message wakes the blobs queued under its address and is
\* returned.  handle_message never suspends, so this runs without interruption.
HandleStaged(base, cur, store, stg, q) ==
    IF stg = <<>>
    THEN St(cur, store, stg, q, RetPending)
    ELSE LET relative_address == stg[1][1]
             binary_msg == stg[1][2]
             rest == Tail(stg)
         IN
         IF base = None
         THEN St(cur, store, rest, q, RetNone)
         ELSE LET h == HandleMessage(cur, store, relative_address, binary_msg) IN
              IF IsOrphan(h, binary_msg)
              THEN HandleStaged(base, h.cursors, h.store, rest,
                                QueuePush(q, binary_msg.linked, <<relative_address, binary_msg>>))
              ELSE IF IsHandlingError(h)
              THEN HandleStaged(base, h.cursors, h.store, rest, q)
              ELSE St(h.cursors, h.store,
                      Wake(rest, q, relative_address),
                      QueueRemove(q, relative_address),
                      RetSome(Message(relative_address, binary_msg)))

\* what a return value of next() does to the caller's side: the value is
\* recorded, and an Ok item is fed to the filter_branch adapters
Return(ret, nfetched) ==
    /\ pc' = IF ret = RetPending THEN "running" ELSE "idle"
    /\ result' = ret
    /\ noneSeen' = (noneSeen \/ ret = RetNone)
    /\ restarted' = (restarted \/ (noneSeen /\ ret.tag = "Some"))
    /\ IF ret.tag = "Some"
       THEN /\ yielded' = Append(yielded, ret.msg)
            /\ yieldedAt' = Append(yieldedAt, nfetched)
            /\ \E pv \in PredValues(fb_pred, ret.msg) :
                 LET st == FilterBranch([skipping |-> fb_skipping, last |-> branch_last_address,
                                         out |-> fb_out], ret.msg, pv) IN
                 /\ fb_skipping' = st.skipping
                 /\ branch_last_address' = st.last
                 /\ fb_out' = st.out
       ELSE UNCHANGED <<yielded, yieldedAt, fbVars>>

\* the caller polls next(): the future runs up to its first transport call,
\* or returns at once when a staged blob yields a message
CallNext ==
    /\ pc = "idle"
    /\ ~BorrowMutPanicked
    /\ LET s == HandleStaged(stream_address, cursors, spongos_store, stage, msg_queue) IN
       /\ cursors' = s.cursors
       /\ spongos_store' = s.store
       /\ stage' = s.stage
       /\ msg_queue' = s.msg_queue
       /\ Return(s.ret, Len(fetched))
    /\ dirty' = FALSE
    /\ last_recv' = NoRecv
    /\ UNCHANGED <<scenario, budget, transport, stream_address, ids_stack, successful_round,
                   fetched, fb_pred, tspVars, idVars, anVars, tgVars, probe_round, cancelled, sending>>

\* next() that probes the cursor itself
ProbeAddressAtCursor(id_cursor) == Gen(id_cursor[1], id_cursor[2])

\* the address probed for a (publisher, cursor) pair: the one after the cursor
ProbeAddress(id_cursor) == Gen(id_cursor[1], id_cursor[2] + 1)

\* next() that ends the stream after the last id of a round whatever the round found
EndOfStreamIgnoringRound(stack, round) == stack = <<>>

\* next() that never ends the stream
EndOfStreamNever(stack, round) == FALSE

\* after a miss: end of stream when every id of the round was tried and none
\* produced an existing link
EndOfStream(stack, round) == stack = <<>> /\ ~round

\* next() that returns a failure of the node to the caller
MissResultSurfacing(r, stack, round) ==
    IF r.err = NativeFailure
    THEN RetErr(r.err)
    ELSE IF EndOfStream(stack, round) THEN RetNone ELSE RetPending

\* next() that ends the stream when an address holds more than one blob
MissResultEndsOnDuplicate(r, stack, round) ==
    IF r.err = MoreThanOne \/ EndOfStream(stack, round) THEN RetNone ELSE RetPending

\* the arm `Err(_e)` of the match on recv_message: whatever the error, the
\* address is taken as missing; None at the end of stream, else next() goes on
MissResult(r, stack, round) ==
    IF EndOfStream(stack, round) THEN RetNone ELSE RetPending

\* next() that probes whether or not the user has a stream address
NoStreamAddressNever(address) == FALSE

\* `self.user.stream_address().as_ref()?`: next() returns None when the user
\* has no stream address
NoStreamAddress(address) == address = None

\* next() with stage empty: take the next (publisher, cursor) pair of the round
\* (starting a new round when none is left), fetch the address after the
\* cursor, and go on with next() until it returns or probes again
Probe ==
    /\ pc = "running"
    /\ cancelled # "dropped"
    /\ ~BorrowMutPanicked
    /\ stage = <<>>
    /\ IF ids_stack = <<>> /\ DOMAIN cursors = {}
       THEN \* new round over no cursor at all
            /\ successful_round' = FALSE
            /\ Return(RetNone, Len(fetched))
            /\ last_recv' = NoRecv
            /\ probe_round' = Round(<<>>, cursors, spongos_store, <<>>)
            /\ UNCHANGED <<userVars, ids_stack, stage, msg_queue, fetched>>
       ELSE \E order \in (IF ids_stack = <<>> THEN CursorOrders(cursors) ELSE {<<>>}) :
            LET newRound == ids_stack = <<>>
                id_cursor == IF newRound THEN order[1] ELSE ids_stack[Len(ids_stack)]
                stack1 == IF newRound THEN Tail(order)
                          ELSE SubSeq(ids_stack, 1, Len(ids_stack) - 1)
                round1 == IF newRound THEN FALSE ELSE successful_round
                address == ProbeAddress(id_cursor)
                started == IF newRound THEN Round(order, cursors, spongos_store, <<>>)
                           ELSE probe_round
            IN
            /\ ids_stack' = stack1
            /\ UNCHANGED stream_address
            /\ IF NoStreamAddress(stream_address)
               THEN /\ successful_round' = round1
                    /\ Return(RetNone, Len(fetched))
                    /\ last_recv' = NoRecv
                    /\ probe_round' = started
                    /\ UNCHANGED <<cursors, spongos_store, stage, msg_queue, fetched>>
               ELSE \E res \in RecvMessages(client, faulty, transport, address) :
                    LET r == RecvMessage(res) IN
                    /\ last_recv' = [address |-> address, res |-> res, out |-> r]
                    /\ probe_round' = [started EXCEPT
                                          !.probed = Append(@, ProbeOf(id_cursor, address, r.ok))]
                    /\ IF r.ok
                       THEN LET s == HandleStaged(stream_address, cursors, spongos_store,
                                                  Append(stage, <<address, r.msg>>), msg_queue)
                            IN
                            /\ successful_round' = TRUE
                            /\ fetched' = Append(fetched, address)
                            /\ cursors' = s.cursors
                            /\ spongos_store' = s.store
                            /\ stage' = s.stage
                            /\ msg_queue' = s.msg_queue
                            /\ Return(s.ret, Len(fetched) + 1)
                       ELSE /\ successful_round' = round1
                            /\ UNCHANGED <<cursors, spongos_store, stage, msg_queue, fetched>>
                            /\ Return(MissResult(r, stack1, round1), Len(fetched))
    /\ UNCHANGED <<scenario, budget, transport, dirty, fb_pred, tspVars, idVars, anVars, tgVars, cancelled, sending>>

\* ---------------------------------------------------------- the publishers
\* sequence number of the next message of a publisher
NextSeq(t, p) ==
    CHOOSE n \in (INITIAL_CURSOR + 1)..(MaxSeq + 1) :
        /\ n = MaxSeq + 1 \/ t[Gen(p, n)] = <<>>
        /\ \A k \in (INITIAL_CURSOR + 1)..(n - 1) : t[Gen(p, k)] # <<>>

\* a publisher wraps a message linked to a message of the stream and sends it
Send ==
    /\ budget > 0
    /\ sending = {}
    /\ \E p \in {Author, Sub1}, cls \in {"ok", "bad"}, linked \in Present(transport) \cup {Ann},
          kind \in {"Keyload", "SignedPacket"} :
         LET address == Gen(p, NextSeq(transport, p)) IN
         \* only the author sends keyloads, and links them to the branch root
         /\ kind = "Keyload" => (p = Author /\ linked = Ann)
         /\ address[2] <= MaxSeq
         /\ transport' = Put(transport, address,
                             Blob(kind, linked, cls, "payload",
                                  IF kind = "Keyload" THEN {Sub1, Reader} ELSE {}))
         /\ dirty' = TRUE
    /\ budget' = budget - 1
    /\ UNCHANGED <<scenario, userVars, iterVars, pc, result, yielded, yieldedAt, fetched,
                   noneSeen, restarted, fb_pred, fbVars, tspVars, idVars, anVars, tgVars, probe_round, last_recv, cancelled, sending>>

\* a publisher calls send_message on the shared transport: borrow_mut(), then
\* the send_message of the transport is awaited
SendBegin ==
    /\ budget > 0
    /\ ~BorrowMutPanicked
    /\ \E p \in {Author, Sub1}, cls \in {"ok", "bad"}, linked \in Present(transport) \cup {Ann},
          kind \in {"Keyload", "SignedPacket"} :
         LET address == Gen(p, NextSeq(transport, p)) IN
         /\ \A c \in sending : c.publisher # p
         /\ kind = "Keyload" => (p = Author /\ linked = Ann)
         /\ address[2] <= MaxSeq
         /\ sending' = sending \cup
                {[publisher |-> p, address |-> address,
                  blob |-> Blob(kind, linked, cls, "payload",
                                IF kind = "Keyload" THEN {Sub1, Reader} ELSE {})]}
    /\ budget' = budget - 1
    /\ UNCHANGED <<scenario, transport, userVars, iterVars, pc, result, yielded, yieldedAt,
                   fetched, dirty, noneSeen, restarted, fb_pred, fbVars, tspVars, idVars, anVars, tgVars, probe_round, last_recv,
                   cancelled>>

\* the send_message of the transport returns: the blob is stored and the RefMut
\* is dropped
SendEnd ==
    /\ ~BorrowMutPanicked
    /\ \E c \in sending :
         /\ transport' = Put(transport, c.address, c.blob)
         /\ sending' = sending \ {c}
    /\ dirty' = TRUE
    /\ UNCHANGED <<scenario, budget, userVars, iterVars, pc, result, yielded, yieldedAt,
                   fetched, noneSeen, restarted, fb_pred, fbVars, tspVars, idVars, anVars, tgVars, probe_round, last_recv, cancelled>>

Next == CallNext \/ Probe \/ Send

\* ------------------------------------------------------------ cancellation
\* the caller drops the future returned by Messages::next() while it is pending:
\* the future of MessagesState::next, boxed inside Messages, is no longer polled
Cancel ==
    /\ pc = "running"
    /\ cancelled # "dropped"
    /\ cancelled' = "dropped"
    /\ UNCHANGED stateVars

\* a Messages::next() that starts over with MessagesState::new
CallNextPendingFresh ==
    /\ pc = "running"
    /\ cancelled = "dropped"
    /\ cancelled' = "resumed"
    /\ ids_stack' = <<>>
    /\ msg_queue' = <<>>
    /\ stage' = <<>>
    /\ successful_round' = FALSE
    /\ UNCHANGED <<scenario, budget, transport, userVars, pc, result, yielded, yieldedAt,
                   fetched, dirty, noneSeen, restarted, fb_pred, fbVars, tspVars, idVars, anVars, tgVars, probe_round, last_recv,
                   sending>>

\* Messages::next() called again after a cancellation: StreamExt::next polls
\* the boxed future Messages still holds, which goes on where it was suspended
CallNextPending ==
    /\ pc = "running"
    /\ cancelled = "dropped"
    /\ cancelled' = "resumed"
    /\ UNCHANGED stateVars

NextCancel == Next \/ Cancel \/ CallNextPending

Spec == Init /\ [][Next]_vars

SpecAnyPredicate == InitAnyPredicate /\ [][Next]_vars

\* the runtime polls a pending next() until it returns, and the caller drains
\* the stream: it calls next() again after every item
SpecFair == Init /\ [][Next]_vars /\ WF_vars(Probe) /\ WF_vars(CallNext)

\* the iterator over either Transport implementation
SpecTransport == InitTransport /\ [][Next]_vars

\* a caller that may drop a pending next() and call next() again
SpecCancel == Init /\ [][NextCancel]_vars

\* the users share one tangle client through Rc<RefCell<..>>; its calls suspend
InitShared ==
    /\ InitWith("branch 2")
    /\ scenario \in {"free", "synced"}
    /\ client = "tangle"
    /\ faulty = FALSE

NextShared == CallNext \/ Probe \/ SendBegin \/ SendEnd

SpecShared == InitShared /\ [][NextShared]_vars

\* ------------------------------------------------------------- properties
YieldedAddrs == {yielded[i].address : i \in DOMAIN yielded}

StagedAddrs == {stage[i][1] : i \in DOMAIN stage}

\* position of an address in the order of fetches (0: not fetched)
FetchIdx(a) ==
    IF \E k \in DOMAIN fetched : fetched[k] = a
    THEN CHOOSE k \in DOMAIN fetched : fetched[k] = a
    ELSE 0

IsPrefix(a, b) == Len(a) <= Len(b) /\ SubSeq(b, 1, Len(a)) = a

\* the message next() yields for the blob stored under an address
MessageAt(t, a) == Message(a, t[a][1])

\* the reader received the message before it started to iterate
ReceivedBefore(a) ==
    a[1] \in DOMAIN InitCursors(scenario) /\ a[2] <= InitCursors(scenario)[a[1]]

RECURSIVE Deliverable(_)
\* the reader can locate and unwrap the message stored under address a: its
\* publisher is known, the body is readable, and so is every packet it descends
\* from up to a keyload or to a message received before
Deliverable(a) ==
    LET b == transport[a][1] IN
    /\ Len(transport[a]) = 1
    /\ a[1] \in DOMAIN cursors
    /\ b.cls = "ok"
    /\ \/ b.kind = "Keyload"
       \/ b.linked \in InitStore(scenario)
       \/ b.linked \in Present(transport) /\ Deliverable(b.linked)

\* every message of the transport the reader can locate and unwrap was yielded
AllDeliverableYielded ==
    \A a \in Present(transport) :
        (~ReceivedBefore(a) /\ Deliverable(a)) => a \in YieldedAddrs

\* next() has returned None and nothing was published since it was called
QuietNone == pc = "idle" /\ result = RetNone /\ ~dirty

\* pairs <<i, j>>: yielded[j] is a packet linked to yielded[i], and its blob was
\* fetched before the blob of yielded[i] (so it was handled as an orphan first)
OrphanPairs ==
    {ij \in (DOMAIN yielded) \X (DOMAIN yielded) :
        /\ ij[1] < ij[2]
        /\ yielded[ij[2]].linked = yielded[ij[1]].address
        /\ yielded[ij[2]].kind # "Keyload"
        /\ FetchIdx(yielded[ij[2]].address) < FetchIdx(yielded[ij[1]].address)}

C3_Restartable ==
    QuietNone =>
        /\ AllDeliverableYielded
        /\ \A i, j \in DOMAIN yielded :
              (yielded[j].kind # "Keyload" /\ yielded[j].linked = yielded[i].address)
                  => i < j

\* None, then messages were yielded, the last of them a packet linked to a
\* yielded message, then None again
C3_Witness ==
    /\ QuietNone
    /\ restarted
    /\ yielded[Len(yielded)].kind # "Keyload"
    /\ yielded[Len(yielded)].linked \in YieldedAddrs

\* the messages of S1 in chain order
ExpectedS1 ==
    [i \in 1..(ChainLen + 1) |->
        IF i = 1
        THEN [address |-> Gen(Author, 2), linked |-> Ann, kind |-> "Keyload", payload |-> ""]
        ELSE [address |-> Gen(Author, i + 1), linked |-> Gen(Author, i),
              kind |-> "SignedPacket", payload |-> ChainPayloads[i - 1]]]

\* C4: in S1 the reader yields exactly K, P1, ..., Pn in that order with the sent
\* payloads, and only then None.
C4_SingleBranch ==
    scenario = "S1" =>
        /\ IsPrefix(yielded, ExpectedS1)
        /\ noneSeen => yielded = ExpectedS1

\* the whole chain was yielded and next() returned None
C4_Witness == scenario = "S1" /\ result = RetNone /\ yielded = ExpectedS1

\* K1, K2 and P3 of S3 as the reader yields them
ExpectedS3 ==
    <<MessageAt(TransportS3, Gen(Author, 2)), MessageAt(TransportS3, Gen(Author, 3)),
      MessageAt(TransportS3, Gen(Sub1, 4))>>

\* C5: in S3 the reader, which cannot read P1 and P2, yields exactly K1, K2, P3
\* in that order.
C5_UnreadableTail ==
    scenario = "S3" =>
        /\ IsPrefix(yielded, ExpectedS3)
        /\ noneSeen => yielded = ExpectedS3

\* P1 and P2 were fetched, the three readable messages yielded, then None
C5_Witness ==
    /\ scenario = "S3"
    /\ result = RetNone
    /\ yielded = ExpectedS3
    /\ FetchIdx(Gen(Sub1, 2)) > 0
    /\ FetchIdx(Gen(Sub1, 3)) > 0

\* K, P1 and P2 of S2 as the reader yields them
ExpectedS2 ==
    <<MessageAt(TransportS2, Gen(Author, 3)), MessageAt(TransportS2, Gen(Author, 4)),
      MessageAt(TransportS2, Gen(Sub1, 2))>>

\* C6: in S2 the reader yields exactly K, P1, P2 in that order, in whatever order
\* the blobs are fetched.
C6_OutOfOrder ==
    scenario = "S2" =>
        /\ IsPrefix(yielded, ExpectedS2)
        /\ noneSeen => yielded = ExpectedS2

\* the blobs were fetched in the order P2, K, P1 and yielded as K, P1, P2
C6_Witness ==
    /\ scenario = "S2"
    /\ fetched = <<Gen(Sub1, 2), Gen(Author, 3), Gen(Author, 4)>>
    /\ yielded = ExpectedS2
    /\ result = RetNone

\* position of a message in the order of yields
YieldIdx(m) == CHOOSE k \in DOMAIN yielded : yielded[k] = m

\* the address filter_branch compares the k-th yielded message with: the address
\* of the last message it let through before
LastBefore(k) ==
    LET before == {i \in DOMAIN fb_out : YieldIdx(fb_out[i]) < k} IN
    fb_out[CHOOSE i \in before : \A j \in before : j <= i].address

\* C7: filter_branch yields nothing while it skips; after the first accepted
\* message it yields exactly the messages linked to the message it yielded last,
\* so its output is one linear parent-to-child chain starting at the first
\* accepted message.
C7_FilterBranch ==
    /\ fb_skipping => fb_out = <<>>
    /\ \A i \in DOMAIN fb_out : \E k \in DOMAIN yielded : yielded[k] = fb_out[i]
    /\ \A i \in 2..Len(fb_out) :
          /\ fb_out[i].linked = fb_out[i - 1].address
          /\ YieldIdx(fb_out[i - 1]) < YieldIdx(fb_out[i])
    /\ fb_out # <<>> =>
          /\ branch_last_address = fb_out[Len(fb_out)].address
          /\ \A k \in (YieldIdx(fb_out[1]) + 1)..Len(yielded) :
                (\E i \in DOMAIN fb_out : fb_out[i] = yielded[k])
                    <=> yielded[k].linked = LastBefore(k)

\* a chain of two was let through and a later message of another branch was not
C7_Witness ==
    /\ Len(fb_out) >= 2
    /\ \E k \in DOMAIN yielded :
          /\ k > YieldIdx(fb_out[1])
          /\ \A i \in DOMAIN fb_out : fb_out[i] # yielded[k]

\* the two packets behind the tag of branch 2 in S4
ExpectedS4 ==
    <<MessageAt(TransportS4, Gen(Author, 8)), MessageAt(TransportS4, Gen(Author, 9))>>

\* C8: in S4, filter_branch("payload is not `branch 2`") followed by skip(1)
\* yields exactly the two packets behind the tag of branch 2, in chain order.
C8_BranchTwo ==
    scenario = "S4" =>
        /\ IsPrefix(Skip(fb_out, 1), ExpectedS4)
        /\ noneSeen => Skip(fb_out, 1) = ExpectedS4

\* all eight messages were yielded, the stream ended, and the filter let the tag
\* of branch 2 and its two packets through
C8_Witness ==
    /\ scenario = "S4"
    /\ result = RetNone
    /\ Len(yielded) = 8
    /\ Len(fb_out) = 3
    /\ Skip(fb_out, 1) = ExpectedS4

\* C9: every pending next() returns, and a caller that keeps calling gets None
\* again and again once nothing more is published.
C9_NextTerminates ==
    /\ (pc = "running") ~> (pc = "idle")
    /\ []<>(pc = "idle" /\ result = RetNone)

\* addresses fetched whose blob the reader cannot unwrap
FetchedBad == {k \in DOMAIN fetched : transport[fetched[k]][1].cls = "bad"}

\* next() returned None while an orphan whose parent did not arrive is retained
\* and after a blob was fetched whose handling failed
C9_Witness ==
    /\ pc = "idle"
    /\ result = RetNone
    /\ budget = 0
    /\ DOMAIN msg_queue # {}
    /\ \E k \in FetchedBad : transport[fetched[k]][1].linked \in spongos_store

\* C10: a blob whose handling fails is never yielded, and the iterator goes on:
\* when it returns None every message the reader can locate and unwrap, none of
\* which descends from the failed one, has been yielded.
C10_TamperSkipped ==
    /\ \A i \in DOMAIN yielded : transport[yielded[i].address][1].cls = "ok"
    /\ result.tag \in {"Pending", "None", "Some"}
    /\ (QuietNone /\ FetchedBad # {}) => AllDeliverableYielded

\* a blob failed, a message fetched after it was yielded, and then None
C10_Witness ==
    /\ QuietNone
    /\ \E k \in FetchedBad : \E i \in DOMAIN yielded : FetchIdx(yielded[i].address) > k

\* a step of next() in which the recv_message call of the probe failed
ProbeMissed == Probe /\ last_recv'.address # NoAddr /\ ~last_recv'.out.ok

C12_NetworkFailureReturnsErr ==
    (pc = "idle" /\ last_recv.res.err = NativeFailure) => result.tag = "Err"

\* C14: recv_message returns Ok iff recv_messages returned exactly one blob, and
\* then that blob; an empty list is `not found`, two or more blobs are `more than
\* one` and none of them is returned; an error of recv_messages is propagated.
C14_RecvMessage ==
    last_recv.address # NoAddr =>
        LET res == last_recv.res
            out == last_recv.out
        IN
        /\ out.ok <=> (res.ok /\ Len(res.msgs) = 1)
        /\ out.ok => (out.msg = res.msgs[1] /\ out.err = "")
        /\ (res.ok /\ res.msgs = <<>>) => out.err = NotFound
        /\ (res.ok /\ Len(res.msgs) >= 2) => (out.err = MoreThanOne /\ out.msg = NoAddr)
        /\ ~res.ok => out.err = res.err

\* recv_message was called on an address that holds two blobs
C14_Witness == last_recv.res.ok /\ Len(last_recv.res.msgs) = 2

\* C15 as stated: with either client, recv_message on an address that holds no
\* blob fails with AddressError(not found).
C15_EmptyIsNotFound ==
    (/\ last_recv.address # NoAddr
     /\ transport[last_recv.address] = <<>>
     /\ last_recv.res.err # NativeFailure)
        => last_recv.out.err = NotFound

\* C13 as stated: every yielded message is a Keyload, a SignedPacket or a
\* TaggedPacket.
C13_OnlyApplicationKinds == \A i \in DOMAIN yielded : yielded[i].kind \in Kinds

\* C13 amended: the iterator yields what handle_message accepted, whatever its
\* kind: a Keyload, a SignedPacket, a TaggedPacket or an Unsubscribe whose
\* snapshot is stored.  The Announce and the Subscribe messages sit at addresses
\* it does not probe, and a blob handled as an orphan stays in msg_queue.
C13_YieldsHandledMessages ==
    /\ \A i \in DOMAIN yielded :
          /\ yielded[i].kind \in Kinds \cup {"Unsubscribe"}
          /\ yielded[i].address \in spongos_store
          /\ yielded[i].address[2] > INITIAL_CURSOR
    /\ \A k \in DOMAIN msg_queue : \A n \in DOMAIN msg_queue[k] :
          msg_queue[k][n][1] \notin YieldedAddrs

\* a tagged packet and an unsubscription were yielded, an orphan is retained,
\* and next() returned None
C13_Witness ==
    /\ result = RetNone
    /\ \E i, j \in DOMAIN yielded :
          yielded[i].kind = "TaggedPacket" /\ yielded[j].kind = "Unsubscribe"
    /\ DOMAIN msg_queue # {}

\* C16 as stated: per publisher, the cursors of the yielded messages are strictly
\* increasing.
C16_YieldedCursorsIncrease ==
    \A i, j \in DOMAIN yielded :
        (i < j /\ yielded[i].address[1] = yielded[j].address[1])
            => yielded[i].address[2] < yielded[j].address[2]

\* C16 amended: per publisher, the blobs are fetched in strictly increasing order
\* of their cursor, the stored cursor is at least the cursor of every blob
\* fetched, and no message is yielded twice; the order of the yields may differ,
\* as a blob first handled as an orphan is yielded when its parent is.
C16_FetchedCursorsIncrease ==
    /\ \A i, j \in DOMAIN fetched :
          (i < j /\ fetched[i][1] = fetched[j][1]) => fetched[i][2] < fetched[j][2]
    /\ \A i \in DOMAIN fetched :
          fetched[i][1] \in DOMAIN cursors /\ cursors[fetched[i][1]] >= fetched[i][2]
    /\ \A i, j \in DOMAIN yielded : yielded[i].address = yielded[j].address => i = j

\* a message of a publisher was yielded after a message of the same publisher
\* with a higher cursor
C16_Witness ==
    \E i, j \in DOMAIN yielded :
        /\ i < j
        /\ yielded[i].address[1] = yielded[j].address[1]
        /\ yielded[i].address[2] > yielded[j].address[2]

\* C17: dropping a pending next() and calling next() again loses nothing: every
\* step of a run with cancellations either leaves the iterator, the user and
\* the yielded sequence as they are or is a step of a run without cancellation
\* from the same state; so S2 and S3 still yield their messages in order.
C17_CancelLosesNothing ==
    /\ [][Next]_stateVars
    /\ [](scenario = "S2" =>
            (IsPrefix(yielded, ExpectedS2) /\ (noneSeen => yielded = ExpectedS2)))
    /\ [](scenario = "S3" =>
            (IsPrefix(yielded, ExpectedS3) /\ (noneSeen => yielded = ExpectedS3)))

\* in S2 a next() was dropped and called again, the blobs were fetched in the
\* order P2, K, P1, and K, P1, P2 were yielded before None
C17_Witness ==
    /\ cancelled = "resumed"
    /\ scenario = "S2"
    /\ fetched = <<Gen(Sub1, 2), Gen(Author, 3), Gen(Author, 4)>>
    /\ yielded = ExpectedS2
    /\ result = RetNone

\* -------------------------------------------------------- Identifier exchange
mainVars == <<scenario, budget, transport, stream_address, cursors, spongos_store,
              ids_stack, msg_queue, stage, successful_round, pc, result, yielded, yieldedAt,
              fetched, dirty, noneSeen, restarted, fb_pred, fb_skipping, branch_last_address,
              fb_out, client, faulty, last_recv, cancelled, sending, probe_round>>

\* a sender sizes an Identifier and wraps it into a fresh stream
IdWrap ==
    /\ id_pc = "start"
    /\ \E identifier \in Identifiers, spongos \in SpongosStates :
         LET ctx == Wrap(identifier, Context(<<>>, spongos)) IN
         /\ id_ctx' = ctx
         /\ id_out' = [NoExchange EXCEPT !.op = "wrap", !.sent = identifier,
                                         !.spongos = spongos, !.size = Sizeof(identifier),
                                         !.wire = ctx.stream, !.ok = TRUE]
    /\ id_pc' = "wrapped"
    /\ UNCHANGED <<id_self, mainVars, anVars, tgVars>>

\* a receiver gets a stream and has a target Identifier with some earlier
\* value; its sponge is where the sender's was when it read the same bytes
\* before, elsewhere otherwise
IdReceive ==
    /\ id_pc = "wrapped"
    /\ \E stream \in Deliveries(id_out.wire), prior \in Identifiers,
          spongos \in SpongosStates :
         /\ id_ctx' = Context(stream, spongos)
         /\ id_self' = prior
         /\ id_out' = [id_out EXCEPT !.op = "receive", !.input = stream, !.prior = prior,
                                     !.rspongos = spongos]
    /\ id_pc' = "received"
    /\ UNCHANGED <<mainVars, anVars, tgVars>>

\* identifier.unwrap(store, ctx)
IdUnwrap ==
    /\ id_pc = "received"
    /\ LET r == Unwrap(id_self, id_ctx) IN
         /\ id_self' = r.self
         /\ id_ctx' = r.ctx
         /\ id_out' = [id_out EXCEPT !.op = "unwrap", !.ok = r.ok, !.err = r.err,
                                     !.value = r.self]
    /\ id_pc' = "done"
    /\ UNCHANGED <<mainVars, anVars, tgVars>>

\* unwrap_new(store, ctx)
IdUnwrapNew ==
    /\ id_pc = "received"
    /\ LET r == UnwrapNew(id_ctx) IN
         /\ id_ctx' = r.ctx
         /\ id_out' = [id_out EXCEPT !.op = "unwrap_new", !.ok = r.ok, !.err = r.err,
                                     !.value = r.self]
    /\ id_pc' = "done"
    /\ UNCHANGED <<id_self, mainVars, anVars, tgVars>>

\* Identifier::from_bytes(bytes), the bytes being what to_bytes returned for an
\* Identifier, or some other slice; done any number of times before an exchange
IdFromBytes ==
    /\ id_pc = "start"
    /\ \E source \in Identifiers \cup {NoIdentifier} :
         \E bytes \in (IF source = NoIdentifier THEN OtherSlices ELSE {ToBytes(source)}) :
            LET r == FromBytes(bytes) IN
            id_out' = [NoExchange EXCEPT !.op = "from_bytes", !.sent = source,
                                         !.input = bytes, !.ok = r.ok, !.err = r.err,
                                         !.value = r.self]
    /\ UNCHANGED <<id_pc, id_self, id_ctx, mainVars, anVars, tgVars>>

InitIdentifier == Init /\ scenario = "fresh"

NextIdentifier == IdWrap \/ IdReceive \/ IdUnwrap \/ IdUnwrapNew \/ IdFromBytes

SpecIdentifier == InitIdentifier /\ [][NextIdentifier]_vars

\* ---------------------------------------------------------- Announce exchange
\* the author sizes the Announce body
AnSizeof ==
    /\ an_pc = "start"
    /\ \E identity \in Identities, spongos \in SpongosStates :
         LET ctx == AnnouncementSizeof(identity) IN
         an_out' = [NoAnnounce EXCEPT !.identity = identity, !.spongos = spongos,
                                      !.size = ctx.size, !.sizeof_verbs = ctx.verbs]
    /\ an_pc' = "sized"
    /\ UNCHANGED <<mainVars, idVars, tgVars>>

\* the author wraps the Announce body
AnWrap ==
    /\ an_pc = "sized"
    /\ LET ctx == AnnouncementWrap(an_out.identity, MessageContext(<<>>, an_out.spongos)) IN
         an_out' = [an_out EXCEPT !.wire = ctx.stream, !.wrap_verbs = ctx.verbs,
                                  !.wrap_spongos = ctx.spongos]
    /\ an_pc' = "wrapped"
    /\ UNCHANGED <<mainVars, idVars, tgVars>>

\* a receiver is handed the blob, as it was written or tampered with
AnReceive ==
    /\ an_pc = "wrapped"
    /\ \E blob \in {an_out.wire} \cup Tampered(an_out.wire) :
         an_out' = [an_out EXCEPT !.input = blob]
    /\ an_pc' = "received"
    /\ UNCHANGED <<mainVars, idVars, tgVars>>

\* the receiver unwraps the Announce body from the sponge state the author
\* started in
AnUnwrap ==
    /\ an_pc = "received"
    /\ LET r == AnnouncementUnwrap(MessageContext(an_out.input, an_out.spongos)) IN
         an_out' = [an_out EXCEPT !.ok = (r.ctx.err = ""), !.err = r.ctx.err,
                                  !.unwrap_verbs = r.ctx.verbs, !.author_id = r.author_id,
                                  !.unwrap_spongos = r.ctx.spongos, !.rest = r.ctx.stream]
    /\ an_pc' = "done"
    /\ UNCHANGED <<mainVars, idVars, tgVars>>

NextAnnounce == AnSizeof \/ AnWrap \/ AnReceive \/ AnUnwrap

SpecAnnounce == InitIdentifier /\ [][NextAnnounce]_vars

\* the senders of an Identifier and of an Announce, side by side
NextSender == IdWrap \/ AnSizeof \/ AnWrap

SpecSender == InitIdentifier /\ [][NextSender]_vars

\* ------------------------------------------------------------- tangle client
MaxBlocks == 2

\* client.send_message(address, msg): the node takes the block or fails
TgSendMessage ==
    /\ Cardinality(tg_blocks \ ForeignBlocks) < MaxBlocks
    /\ \E index_ok \in BOOLEAN, node_ok \in BOOLEAN,
          address \in {Ann, Gen(Sub1, INITIAL_CURSOR)}, body \in TangleBodies :
         LET msg == TransportMessage(body)
             r == TangleSendMessage(index_ok, node_ok, address, msg)
         IN
         /\ tg_blocks' = IF index_ok /\ node_ok THEN tg_blocks \cup {r.block} ELSE tg_blocks
         /\ tg_out' = [op |-> "send_message", address |-> address, msg |-> msg,
                       block |-> r.block, ok |-> r.ok, err |-> r.err, response |-> r.msg,
                       msgs |-> <<>>]
         /\ tg_sent' = IF r.ok THEN tg_sent \cup {<<address, body>>} ELSE tg_sent
    /\ UNCHANGED <<mainVars, idVars, anVars>>

\* a block read from the node is converted into a TransportMessage
TgTryFrom ==
    /\ \E block \in tg_blocks :
         LET r == TryFromBlock(block) IN
         tg_out' = [op |-> "try_from", address |-> NoAddr, msg |-> TransportMessage(<<>>),
                    block |-> block, ok |-> r.ok, err |-> r.err, response |-> r.msg,
                    msgs |-> <<>>]
    /\ UNCHANGED <<tg_blocks, tg_sent, mainVars, idVars, anVars>>

\* the addresses the tangle client is asked for: two it sends to and one it
\* never sends to
TangleAddresses == {Ann, Gen(Sub1, INITIAL_CURSOR), Gen(Author, INITIAL_CURSOR + 1)}

\* client.recv_messages(address): the index service answers or fails
TgRecvMessages ==
    /\ \E index_ok \in BOOLEAN, address \in TangleAddresses :
         \E idx \in TangleRecvQuery(index_ok, tg_blocks, address) :
            LET r == TangleRecvMessages(idx) IN
            tg_out' = [op |-> "recv_messages", address |-> address,
                       msg |-> TransportMessage(<<>>), block |-> Block(OtherPayload("none")),
                       ok |-> r.ok, err |-> r.err, response |-> TransportMessage(<<>>),
                       msgs |-> r.msgs]
    /\ UNCHANGED <<tg_blocks, tg_sent, mainVars, idVars, anVars>>

NextTangle == TgSendMessage \/ TgTryFrom \/ TgRecvMessages

SpecTangle == InitIdentifier /\ [][NextTangle]_vars

\* C18 as stated: in no interleaving of the calls of users that share the
\* transport is its RefCell mutably borrowed by two calls at once.
C18_NoDoubleBorrow == ~BorrowMutPanicked

\* the bytes the unwrap took from the stream it was handed
Consumed == Len(id_out.input) - Len(id_ctx.stream)

\* an unwrap that succeeded read the tag and then 32 bytes after tag 0, 16
\* bytes after tag 1
ReadsTagThenPayload ==
    (id_pc = "done" /\ id_out.ok) =>
        /\ id_out.input[1] \in {0, 1}
        /\ Consumed = 1 + (IF id_out.input[1] = 0 THEN PUBLIC_KEY_LENGTH ELSE PSKID_SIZE)
        /\ id_out.value.kind = (IF id_out.input[1] = 0 THEN "EdPubKey" ELSE "PskId")
        /\ Len(id_out.value.bytes) = Consumed - 1

\* C19 as stated: wrap writes tag 0 and the 32-byte public key for EdPubKey,
\* tag 1 and the 16-byte id for PskId; unwrap reads the tag and then exactly
\* 32 or 16 bytes according to it.
C19_TagThenPayload ==
    /\ id_pc # "start" =>
          id_out.wire = <<IF id_out.sent.kind = "EdPubKey" THEN 0 ELSE 1>> \o id_out.sent.bytes
    /\ ReadsTagThenPayload

\* C19, amended: wrap writes tag 0 and the 32-byte public key in the clear for
\* EdPubKey; for PskId it writes tag 1 and 16 bytes that are the id masked by
\* the sponge (the id is what unmasking them after the tag gives); unwrap reads
\* the tag and then exactly 32 or 16 bytes according to it, and gives back the
\* Identifier wrapped when it is handed the bytes written.
C19_TagThenMaskedPayload ==
    /\ id_pc # "start" =>
          /\ Len(id_out.wire) = Sizeof(id_out.sent)
          /\ id_out.sent.kind = "EdPubKey" =>
                /\ Len(id_out.wire) = 1 + PUBLIC_KEY_LENGTH
                /\ id_out.wire = <<0>> \o id_out.sent.bytes
          /\ id_out.sent.kind = "PskId" =>
                /\ Len(id_out.wire) = 1 + PSKID_SIZE
                /\ id_out.wire[1] = 1
                /\ Decrypt(SpongosAbsorb(id_out.spongos, <<1>>), Tail(id_out.wire))
                      = id_out.sent.bytes
    /\ ReadsTagThenPayload
    /\ (id_pc = "done" /\ id_out.rspongos = id_out.spongos
          /\ Len(id_out.input) >= Len(id_out.wire)
          /\ SubSeq(id_out.input, 1, Len(id_out.wire)) = id_out.wire) =>
          /\ id_out.ok
          /\ id_out.value = id_out.sent
          /\ Consumed = Len(id_out.wire)

\* a PskId whose written bytes differ from the id was unwrapped from a stream
\* that goes on after it
C19_Witness ==
    /\ id_pc = "done"
    /\ id_out.op = "unwrap"
    /\ id_out.sent.kind = "PskId"
    /\ Tail(id_out.wire) # id_out.sent.bytes
    /\ id_out.input = id_out.wire \o <<9, 9>>
    /\ id_out.rspongos = id_out.spongos
    /\ id_self = id_out.sent
    /\ id_self # id_out.prior
    /\ id_ctx.stream = <<9, 9>>

\* C20: an unwrap that reads a tag byte other than 0 and 1 fails with BadOneof;
\* after this failure, and after a failure to read the payload, the target
\* Identifier has the value it had before the call (unwrap_new returns none).
C20_BadOneofKeepsTarget ==
    id_pc = "done" =>
        /\ (id_out.input # <<>> /\ id_out.input[1] \notin {0, 1}) =>
              (~id_out.ok /\ id_out.err = BadOneof)
        /\ ~id_out.ok =>
              /\ id_self = id_out.prior
              /\ id_out.op = "unwrap_new" => id_out.value = NoIdentifier
        /\ (~id_out.ok /\ id_out.err # BadOneof) =>
              \/ id_out.input = <<>>
              \/ /\ id_out.input[1] \in {0, 1}
                 /\ Len(id_out.input) < 1 + (IF id_out.input[1] = 0 THEN PUBLIC_KEY_LENGTH
                                                                    ELSE PSKID_SIZE)

\* unwrap failed on tag 255 and its target, a PskId, is still what it was
C20_Witness ==
    /\ id_pc = "done"
    /\ id_out.op = "unwrap"
    /\ id_out.input # <<>>
    /\ id_out.input[1] = 255
    /\ id_out.err = BadOneof
    /\ id_out.prior.kind = "PskId"
    /\ id_self = id_out.prior

\* C21: unwrapping the bytes wrap wrote for an Identifier, from the sponge
\* state the wrap started in, succeeds and gives an Identifier equal to it:
\* the same variant with the same payload; Identifiers that are not equal are
\* written as different bytes.
C21_IdentifierRoundTrip ==
    /\ (id_pc = "done" /\ id_out.op = "unwrap" /\ id_out.input = id_out.wire
          /\ id_out.rspongos = id_out.spongos) =>
          /\ id_out.ok
          /\ IdentifierEq(id_self, id_out.sent)
          /\ id_self = id_out.sent
          /\ id_ctx.stream = <<>>
    /\ id_pc = "wrapped" =>
          \A other \in Identifiers :
             (Wrap(other, Context(<<>>, id_out.spongos)).stream = id_out.wire)
                <=> IdentifierEq(other, id_out.sent)

\* a PskId was unwrapped from the bytes written for it into a target that held
\* an EdPubKey
C21_Witness ==
    /\ id_pc = "done"
    /\ id_out.op = "unwrap"
    /\ id_out.input = id_out.wire
    /\ id_out.rspongos = id_out.spongos
    /\ id_out.sent.kind = "PskId"
    /\ id_out.prior.kind = "EdPubKey"
    /\ id_self = id_out.sent

\* C22: for the Identifier and for the Announce the sizeof context executes the
\* verbs of the wrap context, and the size it computes is the number of bytes
\* wrap writes: 33 for an Ed25519 identifier, 17 for a PskId.
C22_SizeofIsWrapLength ==
    /\ id_pc # "start" =>
          /\ id_out.size = Len(id_out.wire)
          /\ id_out.size = (IF id_out.sent.kind = "EdPubKey" THEN 33 ELSE 17)
    /\ an_pc \notin {"start", "sized"} =>
          /\ an_out.size = Len(an_out.wire)
          /\ an_out.sizeof_verbs = an_out.wrap_verbs
          /\ an_out.size >= (IF an_out.identity.identifier.kind = "EdPubKey" THEN 33 ELSE 17)

\* an Identifier and the Announce of an Ed25519 identity were both sized and
\* wrapped
C22_Witness ==
    /\ id_pc = "wrapped"
    /\ id_out.sent.kind = "PskId"
    /\ id_out.size = 17
    /\ an_pc = "wrapped"
    /\ an_out.identity.identifier.kind = "EdPubKey"
    /\ an_out.size = Len(an_out.wire)
    /\ Len(an_out.wire) > 33

AnnounceVerbs == <<"mask", "sign", "commit">>

C25_SendResponseIsMessage ==
    /\ tg_out.op = "send_message" =>
          /\ tg_out.ok <=> tg_out.err \notin {TagFailure, SendingFailure}
          /\ tg_out.ok => (tg_out.response = tg_out.msg /\ tg_out.block \in tg_blocks)
    /\ tg_out.op = "try_from" =>
          IF tg_out.block.payload.kind = "TaggedData"
          THEN tg_out.ok /\ IntoVec(tg_out.response) = tg_out.block.payload.data
          ELSE ~tg_out.ok /\ tg_out.err = Malformed

\* a message was sent and answered, and a block without tagged data failed
\* to convert
C25_Witness ==
    /\ tg_out.op = "try_from"
    /\ tg_out.block.payload.kind = "Transaction"
    /\ tg_out.err = Malformed
    /\ \E block \in tg_blocks :
          block.payload.kind = "TaggedData" /\ block.payload.data = <<12, 12>>

\* the probes done in the round in progress
Probed == {probe_round.probed[i] : i \in 1..Len(probe_round.probed)}

\* next() has just returned None from the arm of a transport miss
NoneAfterMiss ==
    /\ pc = "idle"
    /\ result = RetNone
    /\ last_recv.address # NoAddr
    /\ ~last_recv.out.ok

\* C26: next() returns None after a transport miss only with ids_stack empty
\* and no probe of the round having found a blob; then stage is empty, every
\* publisher of user.cursors() was probed at cursor + 1 within that one round,
\* the user state did not change meanwhile, and every probe of the round missed.
C26_NoneMeansFullMissedRound ==
    NoneAfterMiss =>
        /\ ids_stack = <<>>
        /\ ~successful_round
        /\ stage = <<>>
        /\ probe_round.cursors = cursors
        /\ probe_round.store = spongos_store
        /\ Len(probe_round.probed) = Cardinality(DOMAIN cursors)
        /\ {pr.address : pr \in Probed}
              = {Gen(publisher, cursors[publisher] + 1) : publisher \in DOMAIN cursors}
        /\ \A pr \in Probed : ~pr.hit

\* None after a round that probed two publishers
C26_Witness ==
    /\ NoneAfterMiss
    /\ Len(probe_round.probed) = 2
    /\ yielded # <<>>
    /\ dirty

\* a step of next() that fetches an address
ProbeFetched == Probe /\ last_recv'.address # NoAddr

\* the pair the latest probe of the round popped
LatestProbe == probe_round.probed[Len(probe_round.probed)]

CursorPairs(cur) == {<<publisher, cur[publisher]>> : publisher \in DOMAIN cur}

RoundIds == {probe_round.ids[i] : i \in 1..Len(probe_round.ids)}

\* C28: a new probe round starts only when ids_stack is empty; it resets
\* successful_round and takes the pairs of user.cursors() at that moment;
\* within the round each pair is probed at most once, every pair that has left
\* ids_stack exactly once, at the address of its captured cursor plus one.
C28_RoundProbesEachPairOnce ==
    /\ [][(Probe /\ ids_stack # <<>>) =>
             /\ probe_round'.ids = probe_round.ids
             /\ probe_round'.cursors = probe_round.cursors
             /\ Len(ids_stack') = Len(ids_stack) - 1
             /\ (successful_round => successful_round')]_vars
    /\ [][(Probe /\ ids_stack = <<>>) =>
             /\ RoundIds' = CursorPairs(cursors)
             /\ probe_round'.cursors = cursors
             /\ Len(probe_round'.probed) <= 1
             /\ successful_round' = (\E pr \in Probed' : pr.hit)]_vars
    /\ [](/\ Len(probe_round.ids) = Cardinality(RoundIds)
          /\ RoundIds = CursorPairs(probe_round.cursors)
          /\ \A i, j \in 1..Len(probe_round.probed) :
                probe_round.probed[i].id = probe_round.probed[j].id => i = j
          /\ \A pr \in Probed :
                /\ pr.id \in RoundIds
                /\ pr.address = Gen(pr.id[1], probe_round.cursors[pr.id[1]] + 1)
          /\ stream_address # None =>
                /\ {pr.id : pr \in Probed} \cup {ids_stack[i] : i \in 1..Len(ids_stack)} = RoundIds
                /\ Len(probe_round.probed) + Len(ids_stack) = Len(probe_round.ids)
          /\ successful_round = (\E pr \in Probed : pr.hit))

\* the second pair of a round is probed at its captured cursor after the first
\* probe of the round found a blob and the user's cursors moved on
C28_Witness ==
    /\ Len(probe_round.probed) = 2
    /\ probe_round.probed[1].hit
    /\ probe_round.cursors # cursors
    /\ ids_stack = <<>>
    /\ successful_round

\* a step of next() in which handle_message returned Orphan for the staged blob:
\* the blob the probe fetched and staged, the snapshot of its parent not stored
OrphanStep ==
    /\ Probe
    /\ last_recv'.out.ok
    /\ HandleMessage(cursors, spongos_store, last_recv'.address, last_recv'.out.msg).res
           = "Orphan"

\* a step of next() that returns Some(Ok(m))
YieldStep == (CallNext \/ Probe) /\ Len(yielded') = Len(yielded) + 1

\* the blobs msg_queue holds under a key
Queued(q, key) == IF key \in DOMAIN q THEN q[key] ELSE <<>>

\* b ends with a
IsSuffix(a, b) == Len(a) <= Len(b) /\ SubSeq(b, Len(b) - Len(a) + 1, Len(b)) = a

\* C29: when handle_message returns Orphan for a staged blob, the blob is appended
\* to the queue msg_queue holds under the address the blob links, the other queues
\* stay as they are and nothing is yielded; when a message m is yielded, the blobs
\* queued under the address of m go to the back of stage in the order they were
\* queued, behind the blobs staged already, the key is removed from msg_queue and
\* the queues under every other key stay as they are.
C29_OrphanQueuedYieldWakes ==
    /\ [][OrphanStep =>
            LET item == <<last_recv'.address, last_recv'.out.msg>>
                parent == item[2].linked
            IN
            /\ DOMAIN msg_queue' = DOMAIN msg_queue \cup {parent}
            /\ msg_queue'[parent] = Append(Queued(msg_queue, parent), item)
            /\ \A k \in DOMAIN msg_queue \ {parent} : msg_queue'[k] = msg_queue[k]
            /\ yielded' = yielded
            /\ result' = RetPending
            /\ stage' = <<>>]_vars
    /\ [][YieldStep =>
            LET m == yielded'[Len(yielded')]
                woken == Queued(msg_queue, m.address)
                kept == Len(stage') - Len(woken)
            IN
            /\ kept >= 0
            /\ SubSeq(stage', kept + 1, Len(stage')) = woken
            /\ IsSuffix(SubSeq(stage', 1, kept), stage)
            /\ DOMAIN msg_queue' = DOMAIN msg_queue \ {m.address}
            /\ \A k \in DOMAIN msg_queue' : msg_queue'[k] = msg_queue[k]]_vars

\* a message was yielded whose orphans, queued in the order they were fetched, are
\* now staged in that order, while an orphan of another message is still queued
C29_Witness ==
    /\ result.tag = "Some"
    /\ Len(stage) >= 2
    /\ \A n \in DOMAIN stage : stage[n][2].linked = result.msg.address
    /\ \A n \in 2..Len(stage) : FetchIdx(stage[n - 1][1]) < FetchIdx(stage[n][1])
    /\ \E k \in DOMAIN msg_queue : k # result.msg.address /\ msg_queue[k] # <<>>

\* how many blobs at the front of a stage next() drops because handling them
\* fails; a failed handling leaves the stored snapshots as they are
Discarded(stg) ==
    LET failing == {n \in 0..Len(stg) :
                       \A i \in 1..n :
                           HandleMessage(cursors, spongos_store, stg[i][1], stg[i][2]).res = "Err"}
    IN CHOOSE n \in failing : \A k \in failing : k <= n

\* a step of next() that handles staged blobs
HandleStep == (CallNext /\ stage # <<>> /\ stream_address # None) \/ (Probe /\ last_recv'.out.ok)

NoRepeat(seq) == \A i, j \in DOMAIN seq : seq[i] = seq[j] => i = j

\* the pairs ids_stack holds whose cursor is behind the cursor of the publisher
StalePairs == {n \in DOMAIN ids_stack : ids_stack[n][2] < cursors[ids_stack[n][1]]}

FetchedItem(a) == <<a, transport[a][1]>>

\* the blobs stage and msg_queue hold
HeldItems ==
    {stage[n] : n \in DOMAIN stage}
        \cup UNION {{msg_queue[k][n] : n \in DOMAIN msg_queue[k]} : k \in DOMAIN msg_queue}

\* a blob the error arm of next() dropped: the reader cannot unwrap it although it
\* has the snapshot the blob needs
DroppedOnError(a) ==
    /\ transport[a][1].cls = "bad"
    /\ HandleMessage(cursors, spongos_store, a, transport[a][1]).res = "Err"

\* C32: every blob the iterator fetched has been yielded, or was dropped because
\* handling it returned an error, or is held in stage or in msg_queue; and a blob
\* in msg_queue stays in its queue over every step of next(), the calls that
\* return None included, until the message at the address it links is yielded,
\* which stages it.
C32_NoFetchedBlobLost ==
    /\ [](\A k \in DOMAIN fetched :
             \/ fetched[k] \in YieldedAddrs
             \/ DroppedOnError(fetched[k])
             \/ FetchedItem(fetched[k]) \in HeldItems)
    /\ [][\A k \in DOMAIN msg_queue : \A n \in DOMAIN msg_queue[k] :
             \/ /\ k \in DOMAIN msg_queue'
                /\ IsPrefix(msg_queue[k], msg_queue'[k])
             \/ /\ Len(yielded') = Len(yielded) + 1
                /\ yielded'[Len(yielded')].address = k
                /\ msg_queue[k][n][2].linked = k
                /\ \E i \in DOMAIN stage' : stage'[i] = msg_queue[k][n]]_vars

\* next() returned None after blobs were fetched of which one was yielded, one
\* was dropped on an error and one is an orphan that stays in msg_queue
C32_Witness ==
    /\ pc = "idle"
    /\ result = RetNone
    /\ yielded # <<>>
    /\ \E k \in DOMAIN fetched :
          DroppedOnError(fetched[k]) /\ FetchedItem(fetched[k]) \notin HeldItems
    /\ \E k \in DOMAIN fetched :
          /\ FetchedItem(fetched[k]) \in HeldItems
          /\ stage = <<>>
          /\ fetched[k] \notin YieldedAddrs

\* C33: when the user has no stream address, or user.cursors() is empty, no step
\* of next() calls the transport or changes stage or msg_queue, and the step
\* that comes to the probe returns None.
C33_NoneWithoutStreamOrCursors ==
    [][((stream_address = None \/ DOMAIN cursors = {}) /\ (CallNext \/ Probe)) =>
          /\ stage' = stage
          /\ msg_queue' = msg_queue
          /\ last_recv' = NoRecv
          /\ fetched' = fetched
          /\ probe_round'.probed = <<>>
          /\ Probe => (result' = RetNone /\ pc' = "idle")]_vars

\* next() returned None to a user that knows publishers but has no stream
\* address: a pair of the round was taken and nothing was fetched
C33_Witness ==
    /\ stream_address = None
    /\ DOMAIN cursors # {}
    /\ pc = "idle"
    /\ result = RetNone
    /\ Len(ids_stack) + 1 = Len(probe_round.ids)
    /\ last_recv = NoRecv

\* C34: when a receiver unwraps the bytes the author's wrap of an Announce wrote,
\* both from the same initial sponge state, the sponge of the unwrap context
\* after its commit is the sponge of the wrap context after its commit.
C34_AnnounceSpongosAgree ==
    (an_pc = "done" /\ an_out.input = an_out.wire) =>
        /\ an_out.ok
        /\ an_out.unwrap_spongos = an_out.wrap_spongos

\* the Announce of an Ed25519 identity was unwrapped from the bytes written, and
\* both sponges ended in the same state, which is not the one they started in
C34_Witness ==
    /\ an_pc = "done"
    /\ an_out.input = an_out.wire
    /\ an_out.identity.identifier.kind = "EdPubKey"
    /\ an_out.unwrap_spongos = an_out.wrap_spongos
    /\ an_out.wrap_spongos # an_out.spongos

\* the messages the tangle client sent to an address
SentTo(address) == {TransportMessage(p[2]) : p \in {q \in tg_sent : q[1] = address}}

\* C35: the tangle client tags the block of send_message(address, m) with
\* get_tag_value(address.to_msg_index()) and recv_messages(address) asks the index
\* service for address.to_msg_index(): with a faithful index service an Ok of
\* recv_messages(A) lists exactly the messages sent to A, so every blob sent to
\* A and none sent only to an address with another index; it is never Ok with
\* an empty list, MessageMissing being returned when nothing was sent to A.
C35_SameIndexBothWays ==
    /\ (tg_out.op = "send_message" /\ tg_out.ok) =>
          /\ tg_out.block.payload.kind = "TaggedData"
          /\ tg_out.block.payload.tag = GetTagValue(TRUE, ToMsgIndex(tg_out.address)).tag
          /\ tg_out.block.payload.data = IntoVec(tg_out.msg)
    /\ tg_out.op = "recv_messages" =>
          /\ tg_out.ok =>
                /\ tg_out.msgs # <<>>
                /\ {tg_out.msgs[i] : i \in DOMAIN tg_out.msgs} = SentTo(tg_out.address)
          /\ ~tg_out.ok =>
                /\ tg_out.err \in {MessageMissing, IndexFailure}
                /\ tg_out.err = MessageMissing => SentTo(tg_out.address) = {}

\* messages were sent to two addresses, and recv_messages of one of them returned
\* its message and not the message of the other
C35_Witness ==
    /\ tg_out.op = "recv_messages"
    /\ tg_out.ok
    /\ Len(tg_out.msgs) = 1
    /\ \E p \in tg_sent : p[1] # tg_out.address /\ TransportMessage(p[2]) # tg_out.msgs[1]
    /\ \E p \in tg_sent : p[1] = tg_out.address /\ TransportMessage(p[2]) = tg_out.msgs[1]

\* C36: from_bytes(to_bytes(id)) is an Identifier equal to id; to_bytes returns
\* the payload without the tag, 32 bytes for an EdPubKey and 16 for a PskId;
\* from_bytes takes the variant from the length of the slice alone, and fails
\* with IdentifierGenerationFailure for every length other than 32 and 16.
C36_BytesRoundTrip ==
    id_out.op = "from_bytes" =>
        /\ id_out.sent # NoIdentifier =>
              /\ id_out.input = id_out.sent.bytes
              /\ Len(id_out.input)
                    = (IF id_out.sent.kind = "EdPubKey" THEN PUBLIC_KEY_LENGTH ELSE PSKID_SIZE)
              /\ id_out.ok
              /\ IdentifierEq(id_out.value, id_out.sent)
        /\ Len(id_out.input) \notin {PUBLIC_KEY_LENGTH, PSKID_SIZE} =>
              (~id_out.ok /\ id_out.err = IdentifierGenerationFailure)
        /\ Len(id_out.input) \in {PUBLIC_KEY_LENGTH, PSKID_SIZE} =>
              id_out.err # IdentifierGenerationFailure
        /\ id_out.ok =>
              /\ id_out.value.bytes = id_out.input
              /\ id_out.value.kind
                    = (IF Len(id_out.input) = PUBLIC_KEY_LENGTH THEN "EdPubKey" ELSE "PskId")

\* the bytes of an EdPubKey came back as the same EdPubKey
C36_Witness ==
    /\ id_out.op = "from_bytes"
    /\ id_out.sent.kind = "EdPubKey"
    /\ id_out.ok
    /\ id_out.value = id_out.sent
    /\ Len(id_out.input) = PUBLIC_KEY_LENGTH

\* what the other decoder returns for the stream and sponge state the finished
\* call was given: unwrap_new after an unwrap, unwrap into the same target
\* after an unwrap_new
OtherDecoder ==
    LET ctx == Context(id_out.input, id_out.rspongos) IN
    IF id_out.op = "unwrap" THEN UnwrapNew(ctx) ELSE Unwrap(id_out.prior, ctx)

\* C37: the two decoders of Identifier agree: for every input stream and
\* initial sponge state, unwrap into an existing Identifier and unwrap_new
\* return the same result (the same Identifier, or the same error), consume the
\* same number of bytes and leave the context in the same state.
C37_DecodersAgree ==
    (id_pc = "done" /\ id_out.op \in {"unwrap", "unwrap_new"}) =>
        /\ OtherDecoder.ok = id_out.ok
        /\ OtherDecoder.err = id_out.err
        /\ id_out.ok => IdentifierEq(OtherDecoder.self, id_out.value)
        /\ Len(id_out.input) - Len(OtherDecoder.ctx.stream) = Consumed
        /\ OtherDecoder.ctx = id_ctx

\* unwrap_new read a PskId from a stream that holds more bytes behind it, in a
\* sponge state other than the sender's, where unwrap would have overwritten an
\* EdPubKey
C37_Witness ==
    /\ id_pc = "done"
    /\ id_out.op = "unwrap_new"
    /\ id_out.ok
    /\ id_out.value.kind = "PskId"
    /\ id_out.prior.kind = "EdPubKey"
    /\ id_ctx.stream # <<>>
    /\ id_out.rspongos # id_out.spongos
    /\ Consumed = 1 + PSKID_SIZE

\* the unwrap context of the Announce received as the chain hands it to commit:
\* after mask(author_id) and verify(author_id)
BeforeCommit ==
    LET m == UnwrapMaskIdentifier(MessageContext(an_out.input, an_out.spongos)) IN
    Verify(m.ctx, m.author_id)

\* C38: commit on an unwrap context always succeeds, commits the sponge state
\* of the context, and leaves the input stream as it was: it consumes no byte.
C38_UnwrapCommitFrame ==
    (an_pc = "done" /\ BeforeCommit.err = "") =>
        /\ an_out.ok
        /\ an_out.err = ""
        /\ an_out.unwrap_spongos = SpongosCommit(BeforeCommit.spongos)
        /\ an_out.rest = BeforeCommit.stream
        /\ an_out.unwrap_verbs = Append(BeforeCommit.verbs, "commit")

\* commit ran on a context whose stream still held bytes, and changed the
\* sponge
C38_Witness ==
    /\ an_pc = "done"
    /\ BeforeCommit.err = ""
    /\ BeforeCommit.stream # <<>>
    /\ an_out.rest = BeforeCommit.stream
    /\ an_out.unwrap_spongos = SpongosCommit(BeforeCommit.spongos)
    /\ an_out.unwrap_spongos # BeforeCommit.spongos

====
